---------------------------- MODULE Spec2Model ----------------------------
(***************************************************************************)
(* A model of the AAG Cloud Sensor driver (src/AAG.py): startup            *)
(* (__init__), the protocol engine (send / query) over the serial          *)
(* channel, the sample aggregators, the PWM setter (set_PWM), the capture  *)
(* cycle, the heater controller (calculate_and_set_PWM and the lookup      *)
(* table AAG_heater_algorithm), the safety decision                        *)
(* (make_safety_decision) and the configuration it reads.                  *)
(*                                                                         *)
(* Conventions                                                             *)
(*   - Python's None is the empty sequence << >>, a present value v is    *)
(*     << v >> (TLC cannot compare a string with a number).                *)
(*   - A request is a sequence of one-character strings, so that           *)
(*     re.match(cmd, send) can be computed character by character.         *)
(*   - A device reply is a record [tag, fields]: the tag is the text that  *)
(*     follows the leading "!" and decides whether the reply matches the   *)
(*     command's expected pattern; a field is the text captured by one     *)
(*     group: [ok |-> TRUE, v |-> n] is text float() converts to n,        *)
(*     [ok |-> FALSE, v |-> 0] is text such as "1.2.3" or "-" that matches  *)
(*     [\d\.\-]+ and that float() rejects with ValueError.                 *)
(*   - An uncaught Python exception is recorded by name in the pc / error  *)
(*     variable of the operation that raised it.                           *)
(***************************************************************************)
EXTENDS Integers, Sequences, FiniteSets, TLC

VARIABLES
    \* ---- protocol engine: one call of query() -------------------------
    q_pc,        \* "idle" | "loop" | "returned" | "raised"
    q_send,      \* the request passed to query (a sequence of characters)
    q_maxtries,  \* the maxtries argument
    q_cmd,       \* index into Commands of the matched definition, 0 = none
    q_count,     \* the local variable count
    q_result,    \* the local variable result / the value returned
    q_error,     \* "" or the name of the exception query raised
    written,     \* the requests written to the Transport by this call
    \* ---- sample aggregator: one call of a get_* method ----------------
    a_pc,        \* "idle" | "loop" | "returned" | "raised"
    a_fn,        \* "ambient" | "sky" | "rain" | "wind", "" when idle
    a_i,         \* the loop variable i: iterations completed
    a_values,    \* the local list values
    a_queries,   \* the requests handed to query() by this call, in order
    a_result,    \* the value returned (and stored in the attribute)
    a_flag,      \* get_wind_speed: None, or << what query('v!') returned >>
    \* ---- heater lookup table: one call of AAG_heater_algorithm --------
    t_pc,        \* "idle" | "returned" | "raised"
    t_target,    \* the argument target, in 1/200 degree C
    t_entry,     \* last_entry['rain_sensor_temp_C']: [isstr, v]
    t_out,       \* [error, deltaT, deltaPWM, ret] of the call
    \* ---- the capture cycle and what it works on ----------------------
    c_pc,        \* "idle" | "acquired" | "decided" | "heated" | "raised"
    c_steps,     \* the steps of the current capture() call, in order
    c_error,     \* "" or the name of the exception that ended capture()
    c_read,      \* None, or << what the get_* methods returned in this cycle >>
    cycles,      \* number of capture() calls started
    now,         \* the clock (dt.utcnow()), in seconds
    data,        \* the local dict data of capture()
    safe_dict,   \* self.safe_dict: None or the dict of the last decision
    d_flags,     \* sky_safe, wind_safe, gust_safe, rain_safe of that decision
    weather,     \* db.weather: the stored entries [date, data], by date
    current,     \* db.current {"type": "weather"}: None or << data >>
    impulse_heating, \* self.impulse_heating: "None" | "True" | "False"
    impulse_start,   \* self.impulse_start: None or << time >>
    h_before,        \* [heating, start] when this cycle's heater computation began
    h_last_entry,    \* last_entry as this cycle's heater computation read it
    pwm_set,         \* the percent this cycle's heater computation handed to set_PWM
    \* ---- configuration ------------------------------------------------
    source,      \* the configuration source: what load_config() returns now
    cfg,         \* self.cfg: the dict make_safety_decision reads
    config,      \* self.config: None (never assigned) or << dict >>
    cfg_read,    \* None, or << self.cfg as the latest decision read it >>
    config_was,  \* None, or << self.config when the latest decision began >>
    \* ---- PWM setter: one call of set_PWM ------------------------------
    p_pc,        \* "idle" | "loop" | "returned" | "raised"
    p_arg,       \* None, or << the argument percent as the caller passed it >>
    p_percent,   \* the argument percent, after clamping
    p_ntries,    \* the argument ntries
    p_count,     \* the local variable count
    p_success,   \* the local variable success
    p_PWM,       \* self.PWM: None, or << readback, in 1/1023 percent >>
    p_queries,   \* the requests handed to query() by this call, in order
    \* ---- startup: __init__ and the first capture() --------------------
    s_pc,        \* "new" | "name" | "firmware" | "serial" | "constructed" |
                 \* "exited" | "capturing" | "raised"
    s_AAG,       \* self.AAG: "unset" | "None" | "Serial"
    s_ident,     \* the identification attributes set so far: key -> text
    s_asked,     \* the identification requests handed to query(), in order
    \* ---- Transport: the serial channel under send() -------------------
    x_pc,        \* "idle" | "waiting" | "returned"
    x_seq,       \* number of requests written so far
    x_wire,      \* reply chunks the device has still to deliver, in order
    x_buffer,    \* the input buffer of the channel: chunks, oldest first
    x_before,    \* the input buffer as the latest send() found it
    x_result,    \* None, or << the chunks the latest send() returned >>
    x_reads,     \* number of response reads performed so far
    \* ---- heater controller: two calls in a row on the same inputs -----
    i_pc,        \* "idle" | "once" | "twice"
    i_in,        \* the inputs: [stored, cur, heating, start, t]
    i_out1,      \* what the first call did
    i_out2,      \* what the second call did
    \* ---- switch reader: one call of get_switch ------------------------
    w_pc,        \* "idle" | "loop" | "returned"
    w_maxtries,  \* the argument maxtries
    w_tries,     \* the local variable tries
    w_status,    \* the local variable status: None or << text >>
    w_switch,    \* self.switch: None or << text >>
    w_sent,      \* the requests handed to send() by this call, in order
    w_replies    \* what send() returned to this call, in order

qvars == <<q_pc, q_send, q_maxtries, q_cmd, q_count, q_result, q_error, written>>

avars == <<a_pc, a_fn, a_i, a_values, a_queries, a_result, a_flag>>

tvars == <<t_pc, t_target, t_entry, t_out>>

cvars == <<c_pc, c_steps, c_error, c_read, cycles, now, data, safe_dict, d_flags,
           weather, current, impulse_heating, impulse_start, h_before,
           h_last_entry, pwm_set>>

gvars == <<source, cfg, config, cfg_read, config_was>>

pvars == <<p_pc, p_arg, p_percent, p_ntries, p_count, p_success, p_PWM, p_queries>>

svars == <<s_pc, s_AAG, s_ident, s_asked>>

xvars == <<x_pc, x_seq, x_wire, x_buffer, x_before, x_result, x_reads>>

ivars == <<i_pc, i_in, i_out1, i_out2>>

wvars == <<w_pc, w_maxtries, w_tries, w_status, w_switch, w_sent, w_replies>>

vars == <<qvars, avars, tvars, cvars, gvars, pvars, svars, xvars, ivars, wvars>>

\* What each component leaves alone.
notq == <<avars, tvars, cvars, gvars, pvars, svars, xvars, ivars, wvars>>

nota == <<qvars, tvars, cvars, gvars, pvars, svars, xvars, ivars, wvars>>

nott == <<qvars, avars, cvars, gvars, pvars, svars, xvars, ivars, wvars>>

notc == <<qvars, avars, tvars, pvars, svars, xvars, ivars, wvars>>

notg == <<qvars, avars, tvars, cvars, pvars, svars, xvars, ivars, wvars>>

notp == <<qvars, avars, tvars, cvars, gvars, svars, xvars, ivars, wvars>>

nots == <<qvars, avars, tvars, cvars, gvars, pvars, xvars, ivars, wvars>>

notx == <<qvars, avars, tvars, cvars, gvars, pvars, svars, ivars, wvars>>

noti == <<qvars, avars, tvars, cvars, gvars, pvars, svars, xvars, wvars>>

notw == <<qvars, avars, tvars, cvars, gvars, pvars, svars, xvars, ivars>>

None == << >>

Some(v) == << v >>

-----------------------------------------------------------------------------
(* Command table, src/AAG.py:147-184                                        *)

Digits == {"0", "1", "2", "3", "4", "5", "6", "7", "8", "9"}

\* self.commands, in insertion order (the order the for loop visits).  A
\* pattern item is a literal character or "\\d", the digit class.
Commands ==
    << <<"!", "A">>, <<"!", "B">>, <<"!", "C">>, <<"!", "D">>, <<"!", "E">>,
       <<"!", "F">>, <<"!", "G">>, <<"!", "H">>,
       <<"P", "\\d", "\\d", "\\d", "\\d", "!">>,
       <<"!", "Q">>, <<"!", "S">>, <<"!", "T">>, <<"!", "z">>, <<"!", "K">>,
       <<"v", "!">>, <<"V", "!">>, <<"M", "!">>,
       <<"!", "P", "x", "x", "x", "x">> >>

\* re.match(cmd, send): the pattern matches a prefix of send.
ReMatch(cmd, send) ==
    /\ Len(send) >= Len(cmd)
    /\ \A i \in 1..Len(cmd) :
          IF cmd[i] = "\\d" THEN send[i] \in Digits ELSE send[i] = cmd[i]

\* A variant of FindCommand that falls back to the first command when no
\* pattern matches.
FindCommandOrFirst(send) ==
    LET hits == {i \in 1..Len(Commands) : ReMatch(Commands[i], send)}
    IN  IF hits = {} THEN 1
        ELSE CHOOSE i \in hits : \A j \in hits : i <= j

\* The for loop of send/query over self.commands.keys(): the index of the
\* first pattern that matches, 0 when found_command stays False.
FindCommand(send) ==
    LET hits == {i \in 1..Len(Commands) : ReMatch(Commands[i], send)}
    IN  IF hits = {} THEN 0
        ELSE CHOOSE i \in hits : \A j \in hits : i <= j

\* The keys of self.expects: '!G', '!H', '!z' and '!Pxxxx' have no entry.
ExpectsKeys ==
    {i \in 1..Len(Commands) :
        Commands[i] \notin { <<"!", "G">>, <<"!", "H">>, <<"!", "z">>,
                             <<"!", "P", "x", "x", "x", "x">> }}

\* self.expects[cmd], for cmd among its keys: the tag of the expected reply
\* and the number of groups of its pattern.
Expects(c) ==
    CASE Commands[c] = <<"!", "A">> -> [tag |-> "N", groups |-> 1]
      [] Commands[c] = <<"!", "B">> -> [tag |-> "V", groups |-> 1]
      [] Commands[c] = <<"!", "C">> -> [tag |-> "6", groups |-> 3]
      [] Commands[c] = <<"!", "D">> -> [tag |-> "E1", groups |-> 4]
      [] Commands[c] = <<"!", "E">> -> [tag |-> "R", groups |-> 1]
      [] Commands[c] = <<"!", "F">> -> [tag |-> "Y", groups |-> 1]
      [] Commands[c] = <<"P", "\\d", "\\d", "\\d", "\\d", "!">>
                                    -> [tag |-> "Q", groups |-> 1]
      [] Commands[c] = <<"!", "Q">> -> [tag |-> "Q", groups |-> 1]
      [] Commands[c] = <<"!", "S">> -> [tag |-> "1", groups |-> 1]
      [] Commands[c] = <<"!", "T">> -> [tag |-> "2", groups |-> 1]
      [] Commands[c] = <<"!", "K">> -> [tag |-> "K", groups |-> 1]
      [] Commands[c] = <<"v", "!">> -> [tag |-> "v", groups |-> 1]
      [] Commands[c] = <<"V", "!">> -> [tag |-> "w", groups |-> 1]
      [] Commands[c] = <<"M", "!">> -> [tag |-> "M", groups |-> 1]
      [] OTHER -> [tag |-> "KeyError", groups |-> 0]

-----------------------------------------------------------------------------
(* Protocol engine: query, src/AAG.py:259-290                               *)

\* The default of query's maxtries argument.
DefaultMaxTries == 5

\* Largest raw value the modelled device reports in the protocol model.
MaxRaw == 1

BadField == [ok |-> FALSE, v |-> 0]

NumField(n) == [ok |-> TRUE, v |-> n]

QueryFields == {NumField(n) : n \in 0..MaxRaw} \cup {BadField}

\* What send() hands back for one request of command c: a reply that matches
\* the expected pattern, with any captured fields, or text that does not
\* (nothing, a truncated or stale reply).
NoMatchReply == [tag |-> "", fields |-> << >>]

DeviceReplies(c, fieldset) ==
    {[tag |-> Expects(c).tag, fields |-> f] :
        f \in [1..Expects(c).groups -> fieldset]} \cup {NoMatchReply}

\* re.match(expect, result)
MatchExpect(c, reply) == reply.tag = Expects(c).tag

\* The requests the protocol model calls query with: every command of the
\* table, a set-PWM request, requests with trailing text and unknown ones.
Requests ==
    {Commands[i] : i \in (1..Len(Commands)) \ {9}} \cup
    { <<"P", "0", "5", "1", "2", "!">>, <<"P", "1", "0", "2", "3", "!">>,
      <<"!", "A", "x">>, <<"!", "P", "0", "5", "1", "2">>, <<"?", "?">>,
      <<"P", "5", "1", "2", "!">> }

\* The while condition of query: not result and (count <= maxtries)
QueryLoopCond(result, count, maxtries) == result = None /\ count <= maxtries

\* query(send, maxtries) up to the while loop: command lookup, delay and
\* expected pattern.
QueryCall(send, maxtries) ==
    /\ q_pc = "idle"
    /\ q_send' = send
    /\ q_maxtries' = maxtries
    /\ q_cmd' = FindCommand(send)
    /\ q_count' = 0
    /\ q_result' = None
    /\ written' = << >>
    /\ IF FindCommand(send) = 0
         THEN q_pc' = "returned" /\ q_error' = ""
         ELSE IF FindCommand(send) \notin ExpectsKeys
                THEN q_pc' = "raised" /\ q_error' = "KeyError"
                ELSE q_pc' = "loop" /\ q_error' = ""
    /\ UNCHANGED notq

\* One iteration of the while loop: count += 1, send, match.
QueryIter ==
    /\ q_pc = "loop"
    /\ QueryLoopCond(q_result, q_count, q_maxtries)
    /\ \E reply \in DeviceReplies(q_cmd, QueryFields) :
          /\ q_count' = q_count + 1
          /\ written' = Append(written, q_send)
          /\ q_result' = IF MatchExpect(q_cmd, reply) THEN reply.fields ELSE None
    /\ UNCHANGED <<q_pc, q_send, q_maxtries, q_cmd, q_error>>
    /\ UNCHANGED notq

\* The loop condition is false: return result.
QueryReturn ==
    /\ q_pc = "loop"
    /\ ~QueryLoopCond(q_result, q_count, q_maxtries)
    /\ q_pc' = "returned"
    /\ UNCHANGED <<q_send, q_maxtries, q_cmd, q_count, q_result, q_error, written>>
    /\ UNCHANGED notq

\* The caller takes the result (or the exception); the engine is free again.
QueryDone ==
    /\ q_pc \in {"returned", "raised"}
    /\ q_pc' = "idle"
    /\ q_send' = << >>
    /\ q_maxtries' = 0
    /\ q_cmd' = 0
    /\ q_count' = 0
    /\ q_result' = None
    /\ q_error' = ""
    /\ written' = << >>
    /\ UNCHANGED notq

QueryIdle ==
    /\ q_pc = "idle"
    /\ q_send = << >>
    /\ q_maxtries = 0
    /\ q_cmd = 0
    /\ q_count = 0
    /\ q_result = None
    /\ q_error = ""
    /\ written = << >>

-----------------------------------------------------------------------------
(* Sample aggregator: get_ambient_temperature, get_sky_temperature,         *)
(* get_rain_frequency, wind_speed_enabled, get_wind_speed                   *)
(* src/AAG.py:292-348, 405-424, 519-560                                     *)
(*                                                                          *)
(* Aggregated values are held in half units (1/200 degree C, 1/2 count,     *)
(* 1/2 km/h), so that the median of an even number of readings, the mean    *)
(* of the two middle ones, is an integer.                                   *)

\* The default n of each get_* method.
N_ambient == 5

N_sky == 9

N_rain == 5

N_wind == 3

\* Largest raw reading the modelled device reports to an aggregator.
MaxReading == 2

AggFields == {NumField(n) : n \in 0..MaxReading} \cup {BadField}

DefaultN(fn) ==
    CASE fn = "ambient" -> N_ambient
      [] fn = "sky" -> N_sky
      [] fn = "rain" -> N_rain
      [] fn = "wind" -> N_wind

AggRequest(fn) ==
    CASE fn = "ambient" -> <<"!", "T">>
      [] fn = "sky" -> <<"!", "S">>
      [] fn = "rain" -> <<"!", "E">>
      [] fn = "wind" -> <<"V", "!">>

\* What self.query(request) may return to an aggregator: None after its
\* retries, or the groups of a matching reply.
QueryOutcomes(request) ==
    {None} \cup
    {r.fields : r \in DeviceReplies(FindCommand(request), AggFields) \ {NoMatchReply}}

\* float(raw) / 100. , in 1/200 degree C
ConvTemp(raw) == 2 * raw

\* float(raw), in half units
ConvPlain(raw) == 2 * raw

Convert(fn, raw) == IF fn \in {"ambient", "sky"} THEN ConvTemp(raw) ELSE ConvPlain(raw)

\* np.median(values) of a non-empty list
Median(values) ==
    LET s == SortSeq(values, LAMBDA x, y : x < y)
        n == Len(s)
    IN  IF n % 2 = 1 THEN s[(n + 1) \div 2]
        ELSE (s[n \div 2] + s[n \div 2 + 1]) \div 2

\* A variant of MinValid that tolerates no failed attempt.
MinValidAll(fn, n) == n

\* The minimum number of collected values for which the method reports a
\* median: n - 1 in get_ambient_temperature, get_sky_temperature and
\* get_rain_frequency, the literal 3 in get_wind_speed.
MinValid(fn, n) == IF fn = "wind" THEN 3 ELSE n - 1

\* bool(self.query('v!')[0]) inside try/except: a non-empty captured string
\* is truthy whatever its digits; None[0] raises and gives enabled = None.
WindSpeedEnabled(outcome) == outcome # None

\* Entry of a get_* method, up to its for loop.  get_wind_speed first calls
\* wind_speed_enabled() and returns None without looping when it is falsy.
AggCall(fn) ==
    /\ a_pc = "idle"
    /\ a_fn' = fn
    /\ a_i' = 0
    /\ a_values' = << >>
    /\ a_result' = None
    /\ IF fn = "wind"
         THEN \E outcome \in QueryOutcomes(<<"v", "!">>) :
                 /\ a_queries' = << <<"v", "!">> >>
                 /\ a_flag' = Some(outcome)
                 /\ a_pc' = IF WindSpeedEnabled(outcome) THEN "loop" ELSE "returned"
         ELSE /\ a_queries' = << >>
              /\ a_flag' = None
              /\ a_pc' = "loop"
    /\ UNCHANGED nota

\* One iteration of the for loop: query, convert, collect.  The three
\* temperature / rain methods swallow every exception of the iteration;
\* get_wind_speed converts outside any try, so a field float() rejects
\* raises ValueError out of the method.
AggIter ==
    /\ a_pc = "loop"
    /\ a_i < DefaultN(a_fn)
    /\ \E outcome \in QueryOutcomes(AggRequest(a_fn)) :
          /\ a_queries' = Append(a_queries, AggRequest(a_fn))
          /\ a_i' = a_i + 1
          /\ IF outcome = None
               THEN UNCHANGED <<a_values, a_pc>>
               ELSE IF outcome[1].ok
                      THEN /\ a_values' = Append(a_values, Convert(a_fn, outcome[1].v))
                           /\ UNCHANGED a_pc
                      ELSE /\ UNCHANGED a_values
                           /\ a_pc' = IF a_fn = "wind" THEN "raised" ELSE "loop"
    /\ UNCHANGED <<a_fn, a_result, a_flag>>
    /\ UNCHANGED nota

\* After the loop: the median when enough values were collected, else None.
AggFinish ==
    /\ a_pc = "loop"
    /\ a_i = DefaultN(a_fn)
    /\ a_result' = IF Len(a_values) >= MinValid(a_fn, DefaultN(a_fn))
                     THEN Some(Median(a_values))
                     ELSE None
    /\ a_pc' = "returned"
    /\ UNCHANGED <<a_fn, a_i, a_values, a_queries, a_flag>>
    /\ UNCHANGED nota

\* The caller takes the result; the aggregator is free again.
AggDone ==
    /\ a_pc \in {"returned", "raised"}
    /\ a_pc' = "idle"
    /\ a_fn' = ""
    /\ a_i' = 0
    /\ a_values' = << >>
    /\ a_queries' = << >>
    /\ a_result' = None
    /\ a_flag' = None
    /\ UNCHANGED nota

AggIdle ==
    /\ a_pc = "idle"
    /\ a_fn = ""
    /\ a_i = 0
    /\ a_values = << >>
    /\ a_queries = << >>
    /\ a_result = None
    /\ a_flag = None

-----------------------------------------------------------------------------
(* Heater lookup table: AAG_heater_algorithm, src/AAG.py:611-648            *)
(*                                                                          *)
(* Temperatures are held in 1/200 degree C.  deltaPWM is held doubled       *)
(* (-40 * scaling with scaling = 0.5 is the float -20.0, held as -40), so   *)
(* that -1 * scaling = -0.5 is an integer; int() then truncates toward 0.   *)

\* x degrees C in 1/200 degree C
Deg(x) == 200 * x

\* x tenths of a degree C in 1/200 degree C
Tenths(x) == 20 * x

\* A number read from a stored sample: a float, or the text of one.
NumVal(v) == [isstr |-> FALSE, v |-> v]

StrVal(v) == [isstr |-> TRUE, v |-> v]

\* int(x) of the float x held doubled: truncation toward zero.
IntOfDoubled(x2) == IF x2 >= 0 THEN x2 \div 2 ELSE -((-x2) \div 2)

\* A variant of the table that tests the wide bands first on the cold side.
HeaterBandByMagnitude(deltaT) ==
    IF deltaT > Deg(8) THEN Some(-40)
    ELSE IF deltaT > Deg(4) THEN Some(-20)
    ELSE IF deltaT > Deg(3) THEN Some(-10)
    ELSE IF deltaT > Deg(2) THEN Some(-6)
    ELSE IF deltaT > Deg(1) THEN Some(-4)
    ELSE IF deltaT > Tenths(5) THEN Some(-2)
    ELSE IF deltaT > Tenths(3) THEN Some(-1)
    ELSE IF deltaT < -Deg(8) THEN Some(40)
    ELSE IF deltaT < -Deg(4) THEN Some(20)
    ELSE IF deltaT < -Deg(3) THEN Some(10)
    ELSE IF deltaT < -Deg(2) THEN Some(6)
    ELSE IF deltaT < -Deg(1) THEN Some(4)
    ELSE IF deltaT < -Tenths(5) THEN Some(2)
    ELSE IF deltaT < -Tenths(3) THEN Some(1)
    ELSE None

\* The if / elif chain: deltaPWM (doubled) as the first branch whose test
\* holds assigns it, None when no branch runs and deltaPWM stays unbound.
HeaterBand(deltaT) ==
    IF deltaT > Deg(8) THEN Some(-40)
    ELSE IF deltaT > Deg(4) THEN Some(-20)
    ELSE IF deltaT > Deg(3) THEN Some(-10)
    ELSE IF deltaT > Deg(2) THEN Some(-6)
    ELSE IF deltaT > Deg(1) THEN Some(-4)
    ELSE IF deltaT > Tenths(5) THEN Some(-2)
    ELSE IF deltaT > Tenths(3) THEN Some(-1)
    ELSE IF deltaT < -Tenths(3) THEN Some(1)
    ELSE IF deltaT < -Tenths(5) THEN Some(2)
    ELSE IF deltaT < -Deg(1) THEN Some(4)
    ELSE IF deltaT < -Deg(2) THEN Some(6)
    ELSE IF deltaT < -Deg(3) THEN Some(10)
    ELSE IF deltaT < -Deg(4) THEN Some(20)
    ELSE IF deltaT < -Deg(8) THEN Some(40)
    ELSE None

\* AAG_heater_algorithm(target, last_entry): the exception raised ("" for
\* none), deltaT, deltaPWM and the value returned.  A rain_sensor_temp_C
\* that is text makes the subtraction raise TypeError; an unbound deltaPWM
\* makes the return statement raise UnboundLocalError.
AAG_heater_algorithm(target, rain_sensor_temp) ==
    IF rain_sensor_temp.isstr
      THEN [error |-> "TypeError", deltaT |-> None, deltaPWM |-> None, ret |-> None]
      ELSE LET deltaT == rain_sensor_temp.v - target
               deltaPWM == HeaterBand(deltaT)
           IN  IF deltaPWM = None
                 THEN [error |-> "UnboundLocalError", deltaT |-> Some(deltaT),
                       deltaPWM |-> None, ret |-> None]
                 ELSE [error |-> "", deltaT |-> Some(deltaT),
                       deltaPWM |-> deltaPWM,
                       ret |-> Some(IntOfDoubled(deltaPWM[1]))]

\* Largest |deltaT| the table model is called with, in steps of 0.05 C.
MaxDeltaSteps == 180

TableTargets == {Deg(0), Deg(10)}

TableEntries(target) ==
    {NumVal(target + 10 * k) : k \in -MaxDeltaSteps..MaxDeltaSteps} \cup
    {StrVal(target + 10 * k) : k \in {-100, 0, 100}}

NoOut == [error |-> "", deltaT |-> None, deltaPWM |-> None, ret |-> None]

TableCall(target, rain_sensor_temp) ==
    /\ t_pc = "idle"
    /\ t_target' = target
    /\ t_entry' = rain_sensor_temp
    /\ t_out' = AAG_heater_algorithm(target, rain_sensor_temp)
    /\ t_pc' = IF AAG_heater_algorithm(target, rain_sensor_temp).error = ""
                 THEN "returned" ELSE "raised"
    /\ UNCHANGED nott

\* The caller takes the result (or the exception).
TableDone ==
    /\ t_pc \in {"returned", "raised"}
    /\ t_pc' = "idle"
    /\ t_target' = 0
    /\ t_entry' = NumVal(0)
    /\ t_out' = NoOut
    /\ UNCHANGED nott

TableIdle ==
    /\ t_pc = "idle"
    /\ t_target = 0
    /\ t_entry = NumVal(0)
    /\ t_out = NoOut

-----------------------------------------------------------------------------
(* Safety decision: make_safety_decision, src/AAG.py:734-878                *)
(*                                                                          *)
(* A dict is a function from its keys; Has(d, k) is k in d.keys().          *)
(* Temperatures are in 1/200 degree C, wind speeds in 1/2 km/h, rain        *)
(* frequencies in 1/2 count, times in seconds.                              *)

Has(d, k) == k \in DOMAIN d

\* x km/h in 1/2 km/h
Kph(x) == 2 * x

\* x counts in 1/2 count
Count(x) == 2 * x

\* d.get(key, default)
CfgGet(d, key, default) == IF Has(d, key) THEN d[key] ELSE default

\* self.cfg.get(name, default), src/AAG.py:739-747: the thresholds are read
\* from the attribute self.cfg at the start of every decision.
threshold_cloudy == CfgGet(cfg, "threshold_cloudy", -(Deg(22) + Tenths(5)))

threshold_very_cloudy == CfgGet(cfg, "threshold_very_cloudy", -Deg(15))

threshold_windy == CfgGet(cfg, "threshold_windy", Kph(20))

threshold_very_windy == CfgGet(cfg, "threshold_very_windy", Kph(30))

threshold_gusty == CfgGet(cfg, "threshold_gusty", Kph(40))

threshold_very_gusty == CfgGet(cfg, "threshold_very_gusty", Kph(50))

threshold_wet == CfgGet(cfg, "threshold_wet", Count(2000))

threshold_rain == CfgGet(cfg, "threshold_rainy", Count(1700))

\* int(safety_delay * 60), safety_delay = self.cfg.get('safety_delay', 15.)
safety_window == CfgGet(cfg, "safety_delay", 15) * 60

\* db.weather.find({'date': {'$gt': start, '$lt': end}}), by ascending date
FindBetween(entries, start, end) ==
    SelectSeq(entries, LAMBDA x : start < x.date /\ x.date < end)

\* [f(x) for x in entries if key in x['data'].keys()], as the values of key
Column(entries, key) ==
    LET with == SelectSeq(entries, LAMBDA x : Has(x.data, key))
    IN  [i \in 1..Len(with) |-> with[i].data[key]]

SeqMax(s) == CHOOSE m \in {s[i] : i \in 1..Len(s)} : \A i \in 1..Len(s) : s[i] <= m

SeqMin(s) == CHOOSE m \in {s[i] : i \in 1..Len(s)} : \A i \in 1..Len(s) : m <= s[i]

RECURSIVE SumRange(_, _, _)
SumRange(s, lo, hi) == IF lo > hi THEN 0 ELSE s[lo] + SumRange(s, lo + 1, hi)

\* ceil(a / b) for b > 0
CeilDiv(a, b) == -((-a) \div b)

\* movingaverage(interval, window_size), src/AAG.py:12-15, as the window sums:
\* np.convolve(interval, ones(M) / M, 'same') has max(N, M) elements, element
\* k (from 0) being the element k + (min(N, M) - 1) div 2 of the full
\* convolution, i.e. the sum of the interval over the M indices ending there,
\* divided by M.  The division is left to the comparisons (see MavgAbove).
MovingSums(interval, M) ==
    LET N == Len(interval)
        shorter == IF N < M THEN N ELSE M
        longer == IF N < M THEN M ELSE N
        offset == (shorter - 1) \div 2
    IN  [k \in 1..longer |->
            LET m == k - 1 + offset
                lo == IF m - M + 1 > 0 THEN m - M + 1 ELSE 0
                hi == IF m < N - 1 THEN m ELSE N - 1
            IN  SumRange(interval, lo + 1, hi + 1)]

\* wind_mavg[i] > threshold, with wind_mavg[i] = sums[i] / M
MavgAbove(sum, M, threshold) == sum > threshold * M

\* The sky branch: the exception raised ("" for none), sky_safe and the label.
SkyDecision(current_values, entries) ==
    LET with == SelectSeq(entries, LAMBDA x : Has(x.data, "sky_temp_C"))
    IN  IF \E i \in 1..Len(with) : ~Has(with[i].data, "ambient_temp_C")
          THEN [error |-> "KeyError", safe |-> FALSE, label |-> ""]
        ELSE IF Len(with) = 0
          THEN [error |-> "", safe |-> FALSE, label |-> "Unknown"]
        ELSE IF ~Has(current_values, "sky_temp_C") \/ ~Has(current_values, "ambient_temp_C")
          THEN [error |-> "KeyError", safe |-> FALSE, label |-> ""]
        ELSE
          LET sky_diff == [i \in 1..Len(with) |->
                             with[i].data["sky_temp_C"] - with[i].data["ambient_temp_C"]]
              last_cloud == current_values["sky_temp_C"] - current_values["ambient_temp_C"]
          IN  [error |-> "",
               safe |-> ~(SeqMax(sky_diff) > threshold_very_cloudy),
               label |-> IF last_cloud > threshold_very_cloudy THEN "Very Cloudy"
                         ELSE IF last_cloud > threshold_cloudy THEN "Cloudy"
                         ELSE "Clear"]

\* The wind and gust branch.
WindDecision(current_values, entries, end) ==
    LET wind_speed == Column(entries, "wind_speed_KPH")
    IN  IF Len(wind_speed) = 0
          THEN [error |-> "", wind_safe |-> FALSE, gust_safe |-> FALSE,
                wind |-> "Unknown", gust |-> "Unknown"]
        ELSE
          LET first == SeqMin([i \in 1..Len(entries) |-> entries[i].date])
              \* int(np.ceil(120. / typical_data_interval)) with
              \* typical_data_interval = (end - first) / len(entries)
              mavg_count == CeilDiv(120 * Len(entries), end - first)
              sums == MovingSums(wind_speed, mavg_count)
              last == sums[Len(sums)]
          IN  IF ~Has(current_values, "wind_speed_KPH")
                THEN [error |-> "KeyError", wind_safe |-> FALSE, gust_safe |-> FALSE,
                      wind |-> "", gust |-> ""]
                ELSE
                  [error |-> "",
                   wind_safe |-> ~(\E i \in 1..Len(sums) :
                                      MavgAbove(sums[i], mavg_count, threshold_very_windy)),
                   wind |-> IF MavgAbove(last, mavg_count, threshold_very_windy)
                              THEN "Very Windy"
                            ELSE IF MavgAbove(last, mavg_count, threshold_windy)
                              THEN "Windy"
                            ELSE "Calm",
                   gust_safe |-> ~(SeqMax(wind_speed) > threshold_very_gusty),
                   gust |-> IF current_values["wind_speed_KPH"] > threshold_very_gusty
                              THEN "Very Gusty"
                            ELSE IF current_values["wind_speed_KPH"] > threshold_gusty
                              THEN "Gusty"
                            ELSE "Calm"]

\* A variant of RainDecision without the look at the window's minimum.
RainDecisionCurrentOnly(current_values, entries) ==
    LET rf_value == Column(entries, "rain_frequency")
    IN  IF Len(rf_value) = 0
          THEN [error |-> "", safe |-> FALSE, label |-> "Unknown"]
        ELSE IF ~Has(current_values, "rain_frequency")
          THEN [error |-> "KeyError", safe |-> FALSE, label |-> ""]
        ELSE IF current_values["rain_frequency"] <= threshold_rain
          THEN [error |-> "", safe |-> FALSE, label |-> "Rain"]
        ELSE IF current_values["rain_frequency"] <= threshold_wet
          THEN [error |-> "", safe |-> FALSE, label |-> "Wet"]
        ELSE [error |-> "", safe |-> TRUE, label |-> "Dry"]

\* The rain branch.
RainDecision(current_values, entries) ==
    LET rf_value == Column(entries, "rain_frequency")
    IN  IF Len(rf_value) = 0
          THEN [error |-> "", safe |-> FALSE, label |-> "Unknown"]
        ELSE IF ~Has(current_values, "rain_frequency")
          THEN [error |-> "KeyError", safe |-> FALSE, label |-> ""]
        ELSE IF current_values["rain_frequency"] <= threshold_rain
          THEN [error |-> "", safe |-> FALSE, label |-> "Rain"]
        ELSE IF current_values["rain_frequency"] <= threshold_wet
          THEN [error |-> "", safe |-> FALSE, label |-> "Wet"]
        ELSE [error |-> "",
              safe |-> ~(SeqMin(rf_value) <= threshold_rain)
                       /\ ~(SeqMin(rf_value) <= threshold_wet),
              label |-> "Dry"]

\* A variant of CompositeSafe that leaves the sky out.
CompositeSafeNoSky(sky_safe, wind_safe, gust_safe, rain_safe) ==
    wind_safe /\ gust_safe /\ rain_safe

\* safe = sky_safe & wind_safe & gust_safe & rain_safe
CompositeSafe(sky_safe, wind_safe, gust_safe, rain_safe) ==
    sky_safe /\ wind_safe /\ gust_safe /\ rain_safe

\* make_safety_decision(current_values) at time end over the stored
\* entries: the exception raised ("" for none), the dict returned and the
\* four per-category flags.  The branches run in the order sky, wind, rain;
\* the first exception ends the call.
make_safety_decision(current_values, stored, end) ==
    LET entries == FindBetween(stored, end - safety_window, end)
        sky == SkyDecision(current_values, entries)
        wind == WindDecision(current_values, entries, end)
        rain == RainDecision(current_values, entries)
        error == IF sky.error # "" THEN sky.error
                 ELSE IF wind.error # "" THEN wind.error
                 ELSE rain.error
    IN  IF error # ""
          THEN [error |-> error, dict |-> None, flags |-> None]
          ELSE [error |-> "",
                dict |-> Some([Safe |-> CompositeSafe(sky.safe, wind.wind_safe,
                                                      wind.gust_safe, rain.safe),
                               Sky |-> sky.label, Wind |-> wind.wind,
                               Gust |-> wind.gust, Rain |-> rain.label]),
                flags |-> Some([sky_safe |-> sky.safe, wind_safe |-> wind.wind_safe,
                                gust_safe |-> wind.gust_safe, rain_safe |-> rain.safe])]

-----------------------------------------------------------------------------
(* Heater controller: calculate_and_set_PWM, src/AAG.py:650-732             *)

\* self.heater_cfg defaults, src/AAG.py:129-138
min_power == 10

impulse_temp == Deg(10)

impulse_duration == 60

impulse_cycle == 600

\* What int(self.heater_PID.recalculate(...)) may be: the PID class is not
\* part of the source; its output is clamped to [min_power, 100].
PIDOutputs == {min_power, 100}

\* len(rain_history) > 3 and not np.any(rain_history)
PersistentRain(rain_history) ==
    /\ Len(rain_history) > 3
    /\ ~(\E i \in 1..Len(rain_history) : rain_history[i])

\* A variant of ImpulseDecision that enters Impulse without recording the
\* start time.
ImpulseDecisionKeepStart(rain_history, heating, start, t) ==
    IF PersistentRain(rain_history)
      THEN IF heating = "True"
             THEN IF t - start[1] > impulse_duration
                    THEN [heating |-> "False", start |-> None]
                    ELSE [heating |-> heating, start |-> start]
             ELSE [heating |-> "True", start |-> start]
      ELSE [heating |-> "False", start |-> None]

\* A variant of ImpulseDecision that ends an impulse as soon as it is
\* impulse_duration seconds old.
ImpulseDecisionExpiresAtDuration(rain_history, heating, start, t) ==
    IF PersistentRain(rain_history)
      THEN IF heating = "True"
             THEN IF t - start[1] >= impulse_duration
                    THEN [heating |-> "False", start |-> None]
                    ELSE [heating |-> heating, start |-> start]
             ELSE [heating |-> "True", start |-> Some(t)]
      ELSE [heating |-> "False", start |-> None]

\* A variant of ImpulseDecision that ends every impulse it finds running.
ImpulseDecisionAlwaysExpires(rain_history, heating, start, t) ==
    IF PersistentRain(rain_history)
      THEN IF heating = "True"
             THEN [heating |-> "False", start |-> None]
             ELSE [heating |-> "True", start |-> Some(t)]
      ELSE [heating |-> "False", start |-> None]

\* A variant of ImpulseDecision that ends an impulse without clearing its
\* start time.
ImpulseDecisionLeavesStart(rain_history, heating, start, t) ==
    IF PersistentRain(rain_history)
      THEN IF heating = "True"
             THEN IF t - start[1] > impulse_duration
                    THEN [heating |-> "False", start |-> start]
                    ELSE [heating |-> heating, start |-> start]
             ELSE [heating |-> "True", start |-> Some(t)]
      ELSE [heating |-> "False", start |-> None]

\* The impulse decision, src/AAG.py:679-699: the new (impulse_heating,
\* impulse_start).
ImpulseDecision(rain_history, heating, start, t) ==
    IF PersistentRain(rain_history)
      THEN IF heating = "True"
             THEN IF t - start[1] > impulse_duration
                    THEN [heating |-> "False", start |-> None]
                    ELSE [heating |-> heating, start |-> start]
             ELSE [heating |-> "True", start |-> Some(t)]
      ELSE [heating |-> "False", start |-> None]

\* A variant of Unadjusted that falls back to Proportional mode.
UnadjustedReset(cur, heating, start) ==
    [error |-> "", last_entry |-> cur, heating |-> "False", start |-> None,
     pwm |-> None, pid_asked |-> FALSE]

\* The call as far as it goes when it adjusts nothing (src/AAG.py:673-676
\* only log a warning): the heater state as it was, set_PWM not called,
\* the PID controller not asked.
Unadjusted(cur, heating, start) ==
    [error |-> "", last_entry |-> cur, heating |-> heating, start |-> start,
     pwm |-> None, pid_asked |-> FALSE]

\* calculate_and_set_PWM() at time t: the exception raised ("" for none),
\* last_entry as read, the new heater state, the percent handed to
\* set_PWM (None when set_PWM is not called) and whether
\* self.heater_PID.recalculate was called.  pid is the value the PID
\* controller returns if asked.
calculate_and_set_PWM(stored, cur, heating, start, t, pid) ==
    LET entries == FindBetween(stored, t - impulse_cycle, t)
        rain_history == Column(entries, "rain_safe")
        same == Unadjusted(cur, heating, start)
    IN  IF cur = None
          THEN [same EXCEPT !.error = "IndexError"]
        ELSE IF ~Has(cur[1], "ambient_temp_C") \/ ~Has(cur[1], "rain_sensor_temp_C")
          THEN same
        ELSE
          LET last_entry == cur[1]
              new == ImpulseDecision(rain_history, heating, start, t)
              moved == [same EXCEPT !.heating = new.heating, !.start = new.start]
              target_temp == last_entry["ambient_temp_C"] + impulse_temp
              rst == last_entry["rain_sensor_temp_C"]
          IN  IF new.heating = "True"
                THEN IF rst.isstr
                       THEN [moved EXCEPT !.error = "TypeError"]
                     ELSE IF rst.v < target_temp
                       THEN [moved EXCEPT !.pwm = Some(100)]
                     ELSE LET out == AAG_heater_algorithm(target_temp, rst)
                          IN  IF out.error # ""
                                THEN [moved EXCEPT !.error = out.error]
                                ELSE [moved EXCEPT !.pwm = out.ret]
                ELSE [moved EXCEPT !.pwm = Some(pid), !.pid_asked = TRUE]

-----------------------------------------------------------------------------
(* The capture cycle: capture, src/AAG.py:562-609                           *)

\* The identification fields, the internal voltage, the LDR resistance and
\* the error counters of the sample are left out: nothing modelled reads
\* them.  The key "cycle" stands for the identity of the sample (the number
\* of the capture() call that built it, 0 for a sample of another writer).

\* "{:.02f}".format(value): the text of the value; the rain-sensor
\* temperatures drawn are whole hundredths, which the format keeps.
Format2(v) == StrVal(v)

\* The dict data after src/AAG.py:570-593, from what the get_* methods
\* returned.  An astropy Quantity is truthy whatever its value; a plain
\* float (rain frequency, PWM) is falsy when it is 0.
BuildData(r, cycle) ==
    ("cycle" :> cycle)
    @@ (IF r.sky # None THEN "sky_temp_C" :> r.sky[1] ELSE << >>)
    @@ (IF r.ambient # None THEN "ambient_temp_C" :> r.ambient[1] ELSE << >>)
    @@ (IF r.rain_sensor # None
          THEN "rain_sensor_temp_C" :> Format2(r.rain_sensor[1]) ELSE << >>)
    @@ (IF r.rain_frequency # None /\ r.rain_frequency # Some(0)
          THEN "rain_frequency" :> r.rain_frequency[1] ELSE << >>)
    @@ (IF r.pwm # None /\ r.pwm # Some(0) THEN "pwm_value" :> r.pwm[1] ELSE << >>)
    @@ (IF r.wind # None THEN "wind_speed_KPH" :> r.wind[1] ELSE << >>)

\* data['safe'] = self.safe_dict['Safe'] ... , src/AAG.py:598-602
WithVerdict(d, verdict) ==
    ("safe" :> verdict.Safe) @@ ("sky_condition" :> verdict.Sky)
    @@ ("wind_condition" :> verdict.Wind) @@ ("gust_condition" :> verdict.Gust)
    @@ ("rain_condition" :> verdict.Rain) @@ d

\* capture() up to src/AAG.py:593: the clock has moved on by dt since the
\* previous cycle and the get_* methods returned r.
CaptureAcquire(r, dt, maxcycles) ==
    /\ c_pc = "idle"
    /\ cycles < maxcycles
    /\ cycles' = cycles + 1
    /\ now' = now + dt
    /\ c_read' = Some(r)
    /\ data' = BuildData(r, cycles + 1)
    /\ c_steps' = << "acquire" >>
    /\ c_pc' = "acquired"
    /\ h_before' = None
    /\ h_last_entry' = None
    /\ pwm_set' = None
    /\ UNCHANGED <<c_error, safe_dict, d_flags, weather, current, impulse_heating,
                   impulse_start>>
    /\ UNCHANGED gvars
    /\ UNCHANGED notc

\* get_wind_speed raises ValueError out of capture(): the anemometer
\* answered 'V!' with text float() rejects (src/AAG.py:550).
CaptureAcquireRaises(dt, maxcycles) ==
    /\ c_pc = "idle"
    /\ cycles < maxcycles
    /\ cycles' = cycles + 1
    /\ now' = now + dt
    /\ c_read' = None
    /\ data' = << >>
    /\ c_steps' = << >>
    /\ c_pc' = "raised"
    /\ c_error' = "ValueError"
    /\ h_before' = None
    /\ h_last_entry' = None
    /\ pwm_set' = None
    /\ UNCHANGED <<safe_dict, d_flags, weather, current, impulse_heating,
                   impulse_start>>
    /\ UNCHANGED gvars
    /\ UNCHANGED notc

\* load_config() at src/AAG.py:872: what the configuration source holds.
load_config == source

\* src/AAG.py:595-602: the safety decision and its copy into data.  The
\* decision reads its thresholds from self.cfg (src/AAG.py:739-747) and,
\* when it reaches its end, assigns load_config() to self.config
\* (src/AAG.py:872).
CaptureDecide ==
    /\ c_pc = "acquired"
    /\ cfg_read' = Some(cfg)
    /\ config_was' = config
    /\ LET out == make_safety_decision(data, weather, now)
       IN  IF out.error # ""
             THEN /\ c_pc' = "raised"
                  /\ c_error' = out.error
                  /\ UNCHANGED <<c_steps, data, safe_dict, d_flags, config>>
             ELSE /\ c_pc' = "decided"
                  /\ c_steps' = Append(c_steps, "decide")
                  /\ safe_dict' = out.dict
                  /\ d_flags' = out.flags
                  /\ data' = WithVerdict(data, out.dict[1])
                  /\ config' = Some(load_config)
                  /\ UNCHANGED c_error
    /\ UNCHANGED <<source, cfg>>
    /\ UNCHANGED <<c_read, cycles, now, weather, current, impulse_heating,
                   impulse_start, h_before, h_last_entry, pwm_set>>
    /\ UNCHANGED notc

\* src/AAG.py:604: self.calculate_and_set_PWM()
CaptureHeater ==
    /\ c_pc = "decided"
    /\ \E pid \in PIDOutputs :
          LET out == calculate_and_set_PWM(weather, current, impulse_heating,
                                           impulse_start, now, pid)
          IN  /\ h_before' = Some([heating |-> impulse_heating, start |-> impulse_start])
              /\ impulse_heating' = out.heating
              /\ impulse_start' = out.start
              /\ h_last_entry' = out.last_entry
              /\ pwm_set' = out.pwm
              /\ IF out.error # ""
                   THEN /\ c_pc' = "raised"
                        /\ c_error' = out.error
                        /\ UNCHANGED c_steps
                   ELSE /\ c_pc' = "heated"
                        /\ c_steps' = Append(c_steps, "heater")
                        /\ UNCHANGED c_error
    /\ UNCHANGED <<c_read, cycles, now, data, safe_dict, d_flags, weather, current>>
    /\ UNCHANGED gvars
    /\ UNCHANGED notc

\* db.insert_current('weather', data) of the external store: data becomes
\* the current weather document and is appended, dated, to db.weather.
InsertCurrent(stored, d, t) ==
    [weather |-> Append(stored, [date |-> t, data |-> d]), current |-> Some(d)]

\* src/AAG.py:606-609: persist the sample and return it.
CapturePersist ==
    /\ c_pc = "heated"
    /\ weather' = InsertCurrent(weather, data, now).weather
    /\ current' = InsertCurrent(weather, data, now).current
    /\ c_steps' = Append(c_steps, "persist")
    /\ c_pc' = "idle"
    /\ UNCHANGED <<c_error, c_read, cycles, now, data, safe_dict, d_flags,
                   impulse_heating, impulse_start, h_before, h_last_entry, pwm_set>>
    /\ UNCHANGED gvars
    /\ UNCHANGED notc

-----------------------------------------------------------------------------
(* PWM setter: set_PWM, src/AAG.py:443-465                                  *)
(*                                                                          *)
(* percent is a whole number of percent; self.PWM = raw * 100 / 1023 is     *)
(* held as raw * 100, i.e. in 1/1023 percent.                               *)

\* The default of set_PWM's ntries argument.
DefaultNTries == 15

\* The width of the digital PWM value: send_digital = int(1023. * percent / 100.)
FullScale == 1023

\* abs(self.PWM - percent) > 5.0
Tolerance == 5

DigitChar(d) ==
    CASE d = 0 -> "0" [] d = 1 -> "1" [] d = 2 -> "2" [] d = 3 -> "3" [] d = 4 -> "4"
      [] d = 5 -> "5" [] d = 6 -> "6" [] d = 7 -> "7" [] d = 8 -> "8" [] d = 9 -> "9"

\* 'P{:04d}!'.format(send_digital), for 0 <= send_digital <= 9999
SendString(send_digital) ==
    << "P", DigitChar(send_digital \div 1000), DigitChar((send_digital \div 100) % 10),
       DigitChar((send_digital \div 10) % 10), DigitChar(send_digital % 10), "!" >>

\* int(1023. * float(percent) / 100.), for 0 <= percent <= 100
SendDigital(percent) == (FullScale * percent) \div 100

\* Only the first of the two clamping tests.
ClampLow(percent) == IF percent < 0 THEN 0 ELSE percent

\* if percent < 0.: percent = 0. ; if percent > 100.: percent = 100.
Clamp(percent) == IF percent < 0 THEN 0 ELSE IF percent > 100 THEN 100 ELSE percent

\* The percents set_PWM is called with, and the raw duty cycles the device
\* may report back.
PwmPercents == {-10, 0, 50, 100, 150}

PwmReadbacks == {0, 460, 511, FullScale}

\* What self.query(send_string) may return to set_PWM: None after its
\* retries, or the one group of a reply matching '!Q\s+([\d\.\-]+)!'.
PwmOutcomes ==
    {None} \cup {<< NumField(r) >> : r \in PwmReadbacks} \cup {<< BadField >>}

\* The while condition of set_PWM: not success and count <= ntries
SetPwmLoopCond(success, count, ntries) == ~success /\ count <= ntries

\* abs(self.PWM - percent) > 5.0, with self.PWM = raw * 100. / 1023.
OutOfTolerance(raw, percent) ==
    LET d == raw * 100 - percent * FullScale
    IN  (IF d < 0 THEN -d ELSE d) > Tolerance * FullScale

\* set_PWM(percent, ntries) up to its while loop.
SetPwmCall(percent, ntries) ==
    /\ p_pc = "idle"
    /\ p_arg' = Some(percent)
    /\ p_percent' = Clamp(percent)
    /\ p_ntries' = ntries
    /\ p_count' = 0
    /\ p_success' = FALSE
    /\ p_queries' = << >>
    /\ p_pc' = "loop"
    /\ UNCHANGED p_PWM
    /\ UNCHANGED notp

\* One iteration of the while loop: query, count += 1, read back, compare.
SetPwmIter ==
    /\ p_pc = "loop"
    /\ SetPwmLoopCond(p_success, p_count, p_ntries)
    /\ FindCommand(SendString(SendDigital(p_percent))) \in ExpectsKeys
    /\ \E result \in PwmOutcomes :
          /\ p_queries' = Append(p_queries, SendString(SendDigital(p_percent)))
          /\ p_count' = p_count + 1
          /\ IF result = None
               THEN UNCHANGED <<p_PWM, p_success, p_pc>>
               ELSE IF ~result[1].ok
                      THEN /\ p_pc' = "raised"
                           /\ UNCHANGED <<p_PWM, p_success>>
                      ELSE /\ p_PWM' = Some(result[1].v * 100)
                           /\ p_success' = ~OutOfTolerance(result[1].v, p_percent)
                           /\ UNCHANGED p_pc
    /\ UNCHANGED <<p_arg, p_percent, p_ntries>>
    /\ UNCHANGED notp

\* The loop condition is false: the method returns.
SetPwmReturn ==
    /\ p_pc = "loop"
    /\ ~SetPwmLoopCond(p_success, p_count, p_ntries)
    /\ p_pc' = "returned"
    /\ UNCHANGED <<p_arg, p_percent, p_ntries, p_count, p_success, p_PWM, p_queries>>
    /\ UNCHANGED notp

\* The caller goes on (or sees the exception); the setter is free again.
SetPwmDone ==
    /\ p_pc \in {"returned", "raised"}
    /\ p_pc' = "idle"
    /\ p_arg' = None
    /\ p_percent' = 0
    /\ p_ntries' = 0
    /\ p_count' = 0
    /\ p_success' = FALSE
    /\ p_queries' = << >>
    /\ UNCHANGED p_PWM
    /\ UNCHANGED notp

SetPwmIdle ==
    /\ p_pc = "idle"
    /\ p_arg = None
    /\ p_percent = 0
    /\ p_ntries = 0
    /\ p_count = 0
    /\ p_success = FALSE
    /\ p_PWM = None
    /\ p_queries = << >>

-----------------------------------------------------------------------------
(* Switch reader: get_switch, src/AAG.py:492-517                            *)

\* The default of get_switch's maxtries argument.
DefaultSwitchTries == 3

\* The twelve blanks of the two literal patterns.
Pad12 == [k \in 1..12 |-> " "]

\* '!Y            1!'
OpenPattern == << "!", "Y" >> \o Pad12 \o << "1", "!" >>

\* '!X            1!'
ClosedPattern == << "!", "X" >> \o Pad12 \o << "1", "!" >>

\* re.match(pattern, response) for a pattern of literal characters: the
\* response begins with the pattern.
MatchLiteral(pattern, response) ==
    /\ Len(response) >= Len(pattern)
    /\ SubSeq(response, 1, Len(pattern)) = pattern

\* The if / elif / else on the response.
SwitchStatus(response) ==
    IF MatchLiteral(OpenPattern, response) THEN Some("OPEN")
    ELSE IF MatchLiteral(ClosedPattern, response) THEN Some("CLOSED")
    ELSE None

\* One try more before giving up.
SwitchGivesUpLate(status, tries, maxtries) == status = None /\ tries > maxtries

\* if not status and tries >= maxtries
SwitchGivesUp(status, tries, maxtries) == status = None /\ tries >= maxtries

\* What self.send('!F') may return: the text read from the channel after
\* the delay, its handshake trailer removed.
SwitchResponses ==
    { << >>,
      OpenPattern,
      ClosedPattern,
      OpenPattern \o << "!", "X" >>,
      << "!", "Y" >> \o Pad12 \o << "0", "!" >>,
      << "!", "X" >> \o Pad12 \o << "0", "!" >>,
      << "!", "Y", " ", "1", "!" >>,
      << " " >> \o OpenPattern,
      << "!", "R" >> \o Pad12 \o << "1", "!" >> }

\* get_switch(maxtries) up to its while loop.
SwitchCall(maxtries) ==
    /\ w_pc = "idle"
    /\ w_maxtries' = maxtries
    /\ w_switch' = None
    /\ w_tries' = 0
    /\ w_status' = None
    /\ w_sent' = << >>
    /\ w_replies' = << >>
    /\ w_pc' = "loop"
    /\ UNCHANGED notw

\* One iteration of the while loop: tries += 1, send, classify, give up.
SwitchIter ==
    /\ w_pc = "loop"
    /\ w_status = None
    /\ FindCommand(<< "!", "F" >>) # 0
    /\ \E response \in SwitchResponses :
          LET status == SwitchStatus(response)
          IN  /\ w_tries' = w_tries + 1
              /\ w_sent' = Append(w_sent, << "!", "F" >>)
              /\ w_replies' = Append(w_replies, response)
              /\ w_status' = IF SwitchGivesUp(status, w_tries + 1, w_maxtries)
                               THEN Some("UNKNOWN")
                               ELSE status
    /\ UNCHANGED <<w_pc, w_maxtries, w_switch>>
    /\ UNCHANGED notw

\* status is set: self.switch = status, return.
SwitchReturn ==
    /\ w_pc = "loop"
    /\ w_status # None
    /\ w_switch' = w_status
    /\ w_pc' = "returned"
    /\ UNCHANGED <<w_maxtries, w_tries, w_status, w_sent, w_replies>>
    /\ UNCHANGED notw

\* The caller goes on; the reader is free again.
SwitchDone ==
    /\ w_pc = "returned"
    /\ w_pc' = "idle"
    /\ w_maxtries' = 0
    /\ w_tries' = 0
    /\ w_status' = None
    /\ w_sent' = << >>
    /\ w_replies' = << >>
    /\ UNCHANGED w_switch
    /\ UNCHANGED notw

SwitchIdle ==
    /\ w_pc = "idle"
    /\ w_maxtries = 0
    /\ w_tries = 0
    /\ w_status = None
    /\ w_switch = None
    /\ w_sent = << >>
    /\ w_replies = << >>

-----------------------------------------------------------------------------
(* Startup: __init__, src/AAG.py:89-215, and the first lines of capture(),  *)
(* src/AAG.py:569-572                                                       *)

\* The identification queries of __init__, in order: the state it is asked
\* in, the request and the attribute that receives result[0].strip().
IdentSteps ==
    << [at |-> "name", request |-> <<"!", "A">>, attr |-> "name"],
       [at |-> "firmware", request |-> <<"!", "B">>, attr |-> "firmware_version"],
       [at |-> "serial", request |-> <<"!", "K">>, attr |-> "serial_number"] >>

IdentStep(pc) == CHOOSE i \in 1..Len(IdentSteps) : IdentSteps[i].at = pc

\* src/AAG.py:94-108 and 186: a serial address may be given or not, and
\* serial.Serial(...) opens the port or raises; every failure leaves
\* self.AAG = None.  'if self.AAG:' then decides whether the device is
\* identified at all.
Construct(given, opens) ==
    /\ s_pc = "new"
    /\ s_AAG' = IF given /\ opens THEN "Serial" ELSE "None"
    /\ s_pc' = IF given /\ opens THEN IdentSteps[1].at ELSE "constructed"
    /\ UNCHANGED <<s_ident, s_asked>>
    /\ UNCHANGED nots

\* src/AAG.py:187-215: one identification query.  A result sets the
\* attribute and goes on; None sets it to '' and calls sys.exit(1).
Identify ==
    /\ s_pc \in {IdentSteps[i].at : i \in 1..Len(IdentSteps)}
    /\ LET k == IdentStep(s_pc)
       IN  \E result \in QueryOutcomes(IdentSteps[k].request) :
              /\ s_asked' = Append(s_asked, IdentSteps[k].request)
              /\ IF result # None
                   THEN /\ s_ident' = (IdentSteps[k].attr :> result[1]) @@ s_ident
                        /\ s_pc' = IF k < Len(IdentSteps) THEN IdentSteps[k + 1].at
                                   ELSE "constructed"
                   ELSE /\ s_ident' = s_ident
                        /\ s_pc' = "exited"
    /\ UNCHANGED s_AAG
    /\ UNCHANGED nots

\* The constructor returned and the caller starts the first capture():
\* src/AAG.py:570-572 read self.name, self.firmware_version and
\* self.serial_number, attributes only the identification assigns.
FirstCapture ==
    /\ s_pc = "constructed"
    /\ s_pc' = IF \A i \in 1..Len(IdentSteps) : Has(s_ident, IdentSteps[i].attr)
                 THEN "capturing" ELSE "raised"
    /\ UNCHANGED <<s_AAG, s_ident, s_asked>>
    /\ UNCHANGED nots

StartupNew ==
    /\ s_pc = "new"
    /\ s_AAG = "unset"
    /\ s_ident = << >>
    /\ s_asked = << >>

-----------------------------------------------------------------------------
(* Transport under send(), src/AAG.py:230-257                               *)
(*                                                                          *)
(* The bytes of the channel are held as chunks [req, kind]: the body or     *)
(* the trailer (sentinel, padding and the final 0) of the reply to the      *)
(* req-th request written.  The device delivers its chunks in order, at     *)
(* its own pace: a chunk may reach the input buffer after send() has read.  *)

\* Bound on the number of requests written in a run.
MaxSends == 3

Body(k) == [req |-> k, kind |-> "body"]

Trailer(k) == [req |-> k, kind |-> "trailer"]

\* What the device puts on the wire for the k-th request: nothing, a reply,
\* or a reply closed by the trailer.
WireReplies(k) == { << >>, << Body(k) >>, << Body(k), Trailer(k) >> }

\* A variant of ClearBuffer that leaves the buffered bytes where they are.
KeepBuffer(buffer) == buffer

\* cleared = self.AAG.read(self.AAG.inWaiting()): what is left in the input
\* buffer afterwards.
ClearBuffer(buffer) == << >>

\* re.match('(!.*)\\x11\s{12}0', response): when the response starts with a
\* reply body and holds a trailer, group(1) is what precedes the last
\* trailer; otherwise the response is returned as it is.
StripTrailer(response) ==
    LET trailers == {i \in 1..Len(response) : response[i].kind = "trailer"}
    IN  IF Len(response) > 0 /\ response[1].kind = "body" /\ trailers # {}
          THEN SubSeq(response, 1, (CHOOSE i \in trailers : \A j \in trailers : j <= i) - 1)
          ELSE response

\* The requests the channel model calls send with.
SendRequests == { <<"!", "A">>, <<"!", "C">>, <<"?", "?">> }

\* send(request) up to time.sleep(delay), src/AAG.py:232-248: an unknown
\* request returns None at once; otherwise the input buffer is read out
\* and dropped and the request is written.
SendWrite(request) ==
    /\ x_pc = "idle"
    /\ x_seq < MaxSends
    /\ IF FindCommand(request) = 0
         THEN /\ x_result' = None
              /\ UNCHANGED <<x_pc, x_seq, x_wire, x_buffer, x_before, x_reads>>
         ELSE /\ x_before' = x_buffer
              /\ x_buffer' = ClearBuffer(x_buffer)
              /\ x_seq' = x_seq + 1
              /\ \E reply \in WireReplies(x_seq + 1) : x_wire' = x_wire \o reply
              /\ x_pc' = "waiting"
              /\ UNCHANGED <<x_result, x_reads>>
    /\ UNCHANGED notx

\* The device delivers the next chunk into the input buffer.
DeviceDelivers ==
    /\ x_wire # << >>
    /\ x_buffer' = Append(x_buffer, Head(x_wire))
    /\ x_wire' = Tail(x_wire)
    /\ UNCHANGED <<x_pc, x_seq, x_before, x_result, x_reads>>
    /\ UNCHANGED notx

\* send() after the delay, src/AAG.py:249-257: read what is available,
\* strip the trailer, return.
SendRead ==
    /\ x_pc = "waiting"
    /\ x_result' = Some(StripTrailer(x_buffer))
    /\ x_buffer' = << >>
    /\ x_reads' = x_reads + 1
    /\ x_pc' = "idle"
    /\ UNCHANGED <<x_seq, x_wire, x_before>>
    /\ UNCHANGED notx

ChannelIdle ==
    /\ x_pc = "idle"
    /\ x_seq = 0
    /\ x_wire = << >>
    /\ x_buffer = << >>
    /\ x_before = << >>
    /\ x_result = None
    /\ x_reads = 0

-----------------------------------------------------------------------------
(* The heater controller called twice in a row on the same history, the     *)
(* same latest sample and the same clock                                    *)

\* The clock of the two calls.
HeaterNow == 1000

\* Bound on the number of stored entries of a history.
MaxHistory == 4

\* What a stored entry says about rain: its rain_safe flag, or no flag.
FlagKinds == {"safe", "unsafe", "none"}

FlagLists == UNION {[1..n -> FlagKinds] : n \in 0..MaxHistory}

\* Seconds between two stored entries.
HistorySteps == {100, 200}

FlagData(kind) ==
    IF kind = "none" THEN ("cycle" :> 0) ELSE ("cycle" :> 0) @@ ("rain_safe" :> (kind = "safe"))

\* The stored entries for a list of flags, the last one step seconds old.
HistoryOf(flags, step) ==
    [i \in 1..Len(flags) |->
        [date |-> HeaterNow - step * (Len(flags) - i + 1), data |-> FlagData(flags[i])]]

\* The latest sample: absent, without ambient temperature, without
\* rain-sensor temperature, or with the rain sensor below, at and above the
\* impulse target, as a number or as text.
LatestSamples ==
    { None,
      Some(("cycle" :> 0) @@ ("rain_sensor_temp_C" :> NumVal(Deg(12)))),
      Some(("cycle" :> 0) @@ ("ambient_temp_C" :> Deg(10))),
      Some(("cycle" :> 0) @@ ("ambient_temp_C" :> Deg(10))
           @@ ("rain_sensor_temp_C" :> NumVal(Deg(12)))),
      Some(("cycle" :> 0) @@ ("ambient_temp_C" :> Deg(10))
           @@ ("rain_sensor_temp_C" :> NumVal(Deg(20)))),
      Some(("cycle" :> 0) @@ ("ambient_temp_C" :> Deg(10))
           @@ ("rain_sensor_temp_C" :> NumVal(Deg(25)))),
      Some(("cycle" :> 0) @@ ("ambient_temp_C" :> Deg(10))
           @@ ("rain_sensor_temp_C" :> StrVal(Deg(12)))) }

\* Seconds since impulse_start when the first call begins in Impulse mode.
ImpulseAges == {0, impulse_duration, impulse_duration + 1, 300}

\* (self.impulse_heating, self.impulse_start) before the first call.
HeaterStates ==
    { [heating |-> "None", start |-> None], [heating |-> "False", start |-> None] }
    \cup { [heating |-> "True", start |-> Some(HeaterNow - age)] : age \in ImpulseAges }

HeaterInputs ==
    { [stored |-> HistoryOf(flags, step), cur |-> cur, heating |-> st.heating,
       start |-> st.start, t |-> HeaterNow, pid |-> pid] :
         flags \in FlagLists, step \in HistorySteps, cur \in LatestSamples,
         st \in HeaterStates, pid \in PIDOutputs }

NoCall == [error |-> "", last_entry |-> None, heating |-> "None", start |-> None,
           pwm |-> None, pid_asked |-> FALSE]

\* The first call of calculate_and_set_PWM(), on inputs of HeaterInputs.
HeaterFirst ==
    /\ i_pc = "idle"
    /\ \E in \in HeaterInputs :
          /\ i_in' = Some(in)
          /\ i_out1' = calculate_and_set_PWM(in.stored, in.cur, in.heating, in.start,
                                             in.t, in.pid)
    /\ i_pc' = "once"
    /\ UNCHANGED i_out2
    /\ UNCHANGED noti

\* The second call, on the state the first call left, with the same store
\* and the same clock; the PID controller is taken to answer as before.
HeaterSecond ==
    /\ i_pc = "once"
    /\ i_out2' = calculate_and_set_PWM(i_in[1].stored, i_in[1].cur, i_out1.heating,
                                       i_out1.start, i_in[1].t, i_in[1].pid)
    /\ i_pc' = "twice"
    /\ UNCHANGED <<i_in, i_out1>>
    /\ UNCHANGED noti

TwiceReset ==
    /\ i_pc = "twice"
    /\ i_pc' = "idle"
    /\ i_in' = None
    /\ i_out1' = NoCall
    /\ i_out2' = NoCall
    /\ UNCHANGED noti

TwiceIdle ==
    /\ i_pc = "idle"
    /\ i_in = None
    /\ i_out1 = NoCall
    /\ i_out2 = NoCall

-----------------------------------------------------------------------------
(* Specifications                                                           *)

\* Bounds on the number of capture() calls of a run.
MaxCycles == 2

LongCycles == 5

\* What the store may hold when the process starts: nothing, a complete
\* sample of an earlier run, or the documents of another writer that carry
\* a rain_safe flag.
ClearSample ==
    ("cycle" :> 0) @@ ("sky_temp_C" :> -Deg(20)) @@ ("ambient_temp_C" :> Deg(10))
    @@ ("rain_sensor_temp_C" :> StrVal(Deg(12))) @@ ("rain_frequency" :> Count(2500))
    @@ ("pwm_value" :> 512) @@ ("wind_speed_KPH" :> Kph(10))

FlaggedSample ==
    ("cycle" :> 0) @@ ("ambient_temp_C" :> Deg(10))
    @@ ("rain_sensor_temp_C" :> NumVal(Deg(12))) @@ ("rain_frequency" :> Count(1500))
    @@ ("rain_safe" :> FALSE)

SeedStores ==
    { [weather |-> << >>, current |-> None],
      [weather |-> << [date |-> 0, data |-> ClearSample] >>,
       current |-> Some(ClearSample)],
      [weather |-> [i \in 1..4 |-> [date |-> 50 * (i - 4), data |-> FlaggedSample]],
       current |-> Some(FlaggedSample)] }

\* The state after __init__ (src/AAG.py:110-144), on a store of SeedStores.
CaptureStart ==
    /\ c_pc = "idle"
    /\ c_steps = << >>
    /\ c_error = ""
    /\ c_read = None
    /\ cycles = 0
    /\ now = 0
    /\ data = << >>
    /\ safe_dict = None
    /\ d_flags = None
    /\ \E store \in SeedStores : weather = store.weather /\ current = store.current
    /\ impulse_heating = "None"
    /\ impulse_start = None
    /\ h_before = None
    /\ h_last_entry = None
    /\ pwm_set = None

\* The operator changes the configuration source.
ConfigEdit(new) ==
    /\ source # new
    /\ source' = new
    /\ UNCHANGED <<cfg, config, cfg_read, config_was>>
    /\ UNCHANGED notg

\* The configuration at startup: the source holds no option (every
\* threshold at its default), self.cfg is what was loaded from it and
\* self.config does not exist yet.
ConfigStart ==
    /\ source = << >>
    /\ cfg = << >>
    /\ config = None
    /\ cfg_read = None
    /\ config_was = None

Init ==
    /\ QueryIdle /\ AggIdle /\ TableIdle /\ CaptureStart /\ ConfigStart
    /\ SetPwmIdle /\ StartupNew /\ ChannelIdle /\ TwiceIdle /\ SwitchIdle

\* The protocol engine alone: calls of query against a device that answers
\* each request with a matching or a non-matching reply.
QueryNext ==
    \/ \E send \in Requests, maxtries \in 1..DefaultMaxTries :
          QueryCall(send, maxtries)
    \/ QueryIter
    \/ QueryReturn
    \/ QueryDone

SpecQuery == Init /\ [][QueryNext]_vars

\* The aggregators alone: calls of the get_* methods, each query answered
\* by None or by a matching reply.
AggNext ==
    \/ \E fn \in {"ambient", "sky", "rain", "wind"} : AggCall(fn)
    \/ AggIter
    \/ AggFinish
    \/ AggDone

SpecAgg == Init /\ [][AggNext]_vars

\* The lookup table alone: calls of AAG_heater_algorithm over a range of
\* rain-sensor temperatures around the target.
TableNext ==
    \/ \E target \in TableTargets :
          \E entry \in TableEntries(target) : TableCall(target, entry)
    \/ TableDone

SpecTable == Init /\ [][TableNext]_vars

\* What the get_* methods may return in a cycle: each quantity absent or
\* one of a few values on either side of the thresholds.
Readings ==
    [sky : {None, Some(-Deg(20)), Some(0)},
     ambient : {None, Some(Deg(10))},
     rain_sensor : {None, Some(Deg(12))},
     rain_frequency : {None, Some(Count(1500)), Some(Count(2500))},
     pwm : {Some(512)},
     wind : {None, Some(Kph(10)), Some(Kph(60))}]

\* Seconds between two capture() calls.
CycleGaps == {60}

\* The capture cycle: capture() called up to MaxCycles times.
Next ==
    \/ \E r \in Readings, dt \in CycleGaps : CaptureAcquire(r, dt, MaxCycles)
    \/ \E dt \in CycleGaps : CaptureAcquireRaises(dt, MaxCycles)
    \/ CaptureDecide
    \/ CaptureHeater
    \/ CapturePersist

Spec == Init /\ [][Next]_vars

\* Longer runs of the capture cycle in which only the rain frequency, the
\* rain-sensor temperature and the pace vary.
RainReadings ==
    [sky : {Some(-Deg(20))},
     ambient : {Some(Deg(10))},
     rain_sensor : {None, Some(Deg(12))},
     rain_frequency : {Some(Count(1500)), Some(Count(2500))},
     pwm : {Some(512)},
     wind : {Some(Kph(10))}]

RainGaps == {100, 700}

RainNext ==
    \/ \E r \in RainReadings, dt \in RainGaps : CaptureAcquire(r, dt, LongCycles)
    \/ \E dt \in RainGaps : CaptureAcquireRaises(dt, LongCycles)
    \/ CaptureDecide
    \/ CaptureHeater
    \/ CapturePersist

SpecRain == Init /\ [][RainNext]_vars

\* The capture cycle on a quiet night: readings that are exactly zero
\* beside ordinary ones.
ZeroReadings ==
    [sky : {Some(0), Some(-Deg(20))},
     ambient : {Some(0), Some(Deg(10))},
     rain_sensor : {None, Some(Deg(12))},
     rain_frequency : {None, Some(0), Some(Count(2500))},
     pwm : {None, Some(0), Some(512)},
     wind : {None, Some(0), Some(Kph(10))}]

SampleNext ==
    \/ \E r \in ZeroReadings, dt \in CycleGaps : CaptureAcquire(r, dt, MaxCycles)
    \/ \E dt \in CycleGaps : CaptureAcquireRaises(dt, MaxCycles)
    \/ CaptureDecide
    \/ CaptureHeater
    \/ CapturePersist

SpecSample == Init /\ [][SampleNext]_vars

\* The configuration under an operator: capture cycles on complete
\* samples while the configuration source is edited.
ConfigSources == { << >>, ("threshold_very_cloudy" :> -Deg(35)) }

ConfigReadings ==
    [sky : {Some(-Deg(20))},
     ambient : {Some(Deg(10))},
     rain_sensor : {Some(Deg(12))},
     rain_frequency : {Some(Count(2500))},
     pwm : {Some(512)},
     wind : {None, Some(Kph(10))}]

ConfigNext ==
    \/ \E new \in ConfigSources : ConfigEdit(new)
    \/ \E r \in ConfigReadings, dt \in CycleGaps : CaptureAcquire(r, dt, MaxCycles)
    \/ \E dt \in CycleGaps : CaptureAcquireRaises(dt, MaxCycles)
    \/ CaptureDecide
    \/ CaptureHeater
    \/ CapturePersist

SpecConfig == Init /\ [][ConfigNext]_vars

\* The PWM setter alone: calls of set_PWM, each query answered by None or
\* by a readback.
SetPwmNext ==
    \/ \E percent \in PwmPercents, ntries \in {1, 2, DefaultNTries} :
          SetPwmCall(percent, ntries)
    \/ SetPwmIter
    \/ SetPwmReturn
    \/ SetPwmDone

SpecSetPwm == Init /\ [][SetPwmNext]_vars

\* The switch reader alone: calls of get_switch, each send answered by
\* one of the responses.
SwitchNext ==
    \/ \E maxtries \in {1, 2, DefaultSwitchTries} : SwitchCall(maxtries)
    \/ SwitchIter
    \/ SwitchReturn
    \/ SwitchDone

SpecSwitch == Init /\ [][SwitchNext]_vars

\* Startup: the constructor, then the first capture().
StartupNext ==
    \/ \E given \in BOOLEAN, opens \in BOOLEAN : Construct(given, opens)
    \/ Identify
    \/ FirstCapture

SpecStartup == Init /\ [][StartupNext]_vars

\* The channel: calls of send against a device that answers at its own pace.
ChannelNext ==
    \/ \E request \in SendRequests : SendWrite(request)
    \/ DeviceDelivers
    \/ SendRead

SpecChannel == Init /\ [][ChannelNext]_vars

\* The heater controller called twice on inputs of HeaterInputs.
TwiceNext ==
    \/ HeaterFirst
    \/ HeaterSecond
    \/ TwiceReset

SpecHeater == Init /\ [][TwiceNext]_vars

-----------------------------------------------------------------------------
(* Claims on the protocol engine                                            *)

\* C1: query(request, max_tries) calls send at most max_tries times, the
\* first attempt included, and returns None when none of the replies
\* matched; with the default max_tries = 5 a device that never answers
\* validly receives exactly 5 requests.
C1_AtMostMaxTries ==
    q_pc = "returned" /\ q_cmd # 0 =>
        /\ Len(written) <= q_maxtries
        /\ (q_result = None /\ q_maxtries = DefaultMaxTries => Len(written) = 5)

\* The device never answered validly: 6 requests were written for
\* max_tries = 5.
C1_SixRequests ==
    /\ q_pc = "returned"
    /\ q_maxtries = DefaultMaxTries
    /\ q_result = None
    /\ Len(written) = 6

-----------------------------------------------------------------------------
(* Claims on the sample aggregator                                          *)

\* The k-th smallest element of a list, by counting.
KthSmallest(values, k) ==
    CHOOSE x \in {values[i] : i \in 1..Len(values)} :
        /\ Cardinality({i \in 1..Len(values) : values[i] < x}) < k
        /\ Cardinality({i \in 1..Len(values) : values[i] <= x}) >= k

\* The median of a non-empty list: the middle element, or the mean of the
\* two middle elements.
MedianOf(values) ==
    LET n == Len(values)
    IN  (KthSmallest(values, (n + 1) \div 2) + KthSmallest(values, n \div 2 + 1)) \div 2

ClaimedN(fn) == CASE fn = "ambient" -> 5 [] fn = "sky" -> 9 [] fn = "rain" -> 5

\* C4: get_ambient_temperature (n=5), get_sky_temperature (n=9) and
\* get_rain_frequency (n=5) issue their query exactly n times; with at
\* least n-1 convertible values the result is the median of exactly those
\* values, with fewer the quantity is None.
C4_MedianOrAbsent ==
    a_pc = "returned" /\ a_fn \in {"ambient", "sky", "rain"} =>
        /\ a_queries = [i \in 1..ClaimedN(a_fn) |-> AggRequest(a_fn)]
        /\ IF Len(a_values) >= ClaimedN(a_fn) - 1
             THEN a_result = Some(MedianOf(a_values))
             ELSE a_result = None

\* One of the 9 sky queries failed and the median of the other 8 lies
\* between two readings.
C4_Witness ==
    /\ a_pc = "returned"
    /\ a_fn = "sky"
    /\ Len(a_values) = 8
    /\ a_result = Some(1)

\* C5: get_wind_speed (n=3) with the anemometer enabled tolerates one
\* failed attempt: with exactly 2 of the 3 queries succeeding the wind speed
\* is the median of those 2 values; it is absent only when fewer than 2
\* succeed.
C5_WindToleratesOneFailure ==
    a_pc = "returned" /\ a_fn = "wind" /\ a_i = 3 =>
        /\ Len(a_values) >= 2 => a_result = Some(MedianOf(a_values))
        /\ a_result = None => Len(a_values) < 2

-----------------------------------------------------------------------------
(* Claims on the heater lookup table                                        *)

\* C9: the heater lookup table returns a defined power delta for every
\* deltaT; when no band matches, i.e. for -0.3 <= deltaT <= 0.3, it
\* returns 0.
C9_TableTotal ==
    t_pc # "idle" /\ ~t_entry.isstr =>
        /\ t_pc = "returned"
        /\ t_out.ret # None
        /\ (-Tenths(3) <= t_entry.v - t_target /\ t_entry.v - t_target <= Tenths(3)
              => t_out.ret = Some(0))

\* The bands as the specification states them, in order: the comparison,
\* its bound in tenths of a degree, and the doubled deltaPWM (n * scaling
\* held as n).
StatedBands ==
    << <<">", 80, -40>>, <<">", 40, -20>>, <<">", 30, -10>>, <<">", 20, -6>>,
       <<">", 10, -4>>, <<">", 5, -2>>, <<">", 3, -1>>,
       <<"<", -3, 1>>, <<"<", -5, 2>>, <<"<", -10, 4>>, <<"<", -20, 6>>,
       <<"<", -30, 10>>, <<"<", -40, 20>>, <<"<", -80, 40>> >>

GuardHolds(band, deltaT) ==
    IF band[1] = ">" THEN deltaT > Tenths(band[2]) ELSE deltaT < Tenths(band[2])

\* The first stated band whose guard holds, << >> when none does.
FirstStatedBand(deltaT) ==
    LET hits == {i \in 1..Len(StatedBands) : GuardHolds(StatedBands[i], deltaT)}
    IN  IF hits = {} THEN << >>
        ELSE << StatedBands[CHOOSE i \in hits : \A j \in hits : i <= j][3] >>

\* C10: the lookup applies the first band, in the stated order, whose guard
\* holds for deltaT: a deltaT of exactly 8 takes the >4 band, and a deltaT
\* below -0.3 takes the <-0.3 band whatever its magnitude.
C10_FirstBandWins ==
    t_pc # "idle" /\ ~t_entry.isstr =>
        LET deltaT == t_entry.v - t_target
        IN  /\ t_out.deltaPWM = FirstStatedBand(deltaT)
            /\ (deltaT = Deg(8) => t_out.deltaPWM = Some(-20) /\ t_out.ret = Some(-10))
            /\ (deltaT < -Tenths(3) => t_out.deltaPWM = Some(1) /\ t_out.ret = Some(0))

\* The table was called 8.5 C below target and took the <-0.3 band.
C10_Witness ==
    /\ t_pc = "returned"
    /\ t_entry = NumVal(t_target - Deg(8) - Tenths(5))
    /\ t_out.deltaPWM = Some(1)

-----------------------------------------------------------------------------
(* Claims on the capture cycle                                              *)

\* C2: in every capture cycle the steps happen in this order: the sample is
\* acquired, persisted, the safety verdict is computed, then the heater
\* power is computed and applied; in particular the sample of cycle k is
\* already persisted when the heater computation of cycle k reads the
\* latest persisted sample.
C2_PersistFirst ==
    /\ c_pc = "idle" /\ cycles > 0 =>
           c_steps = << "acquire", "persist", "decide", "heater" >>
    /\ c_pc = "heated" =>
           h_last_entry # None /\ h_last_entry[1]["cycle"] = cycles

\* The last four stored entries are samples capture() persisted, dated
\* inside the last impulse_cycle seconds, each with a rain-unsafe verdict.
FourUnsafePersisted ==
    /\ Len(weather) >= 4
    /\ \A i \in (Len(weather) - 3)..Len(weather) :
          /\ weather[i].data["cycle"] >= 1
          /\ weather[i].date > now - impulse_cycle
          /\ weather[i].data["rain_condition"] \in {"Rain", "Wet"}

\* C3: when four or more consecutive capture cycles inside the last
\* impulse_cycle seconds each produced a rain-unsafe verdict and were
\* persisted, the next heater computation (ambient and rain-sensor
\* temperature present, heater not yet in Impulse) puts the heater
\* controller in Impulse mode.
C3_ImpulseAfterFourUnsafe ==
    /\ c_pc = "heated"
    /\ FourUnsafePersisted
    /\ h_before[1].heating # "True"
    /\ Has(h_last_entry[1], "ambient_temp_C")
    /\ Has(h_last_entry[1], "rain_sensor_temp_C")
    => impulse_heating = "True"

\* C6: the verdict's Safe flag is true only if sky, wind, gust and rain are
\* all individually safe; whenever any of the four condition labels is
\* 'Unknown' the Safe flag is false.
C6_StrictAnd ==
    safe_dict # None =>
        LET v == safe_dict[1]
            f == d_flags[1]
        IN  /\ v.Safe => f.sky_safe /\ f.wind_safe /\ f.gust_safe /\ f.rain_safe
            /\ "Unknown" \in {v.Sky, v.Wind, v.Gust, v.Rain} => ~v.Safe

\* A decision found all four categories safe.
C6_Witness ==
    /\ c_pc = "decided"
    /\ safe_dict # None
    /\ safe_dict[1].Safe
    /\ "Unknown" \notin {safe_dict[1].Sky, safe_dict[1].Wind, safe_dict[1].Gust,
                         safe_dict[1].Rain}

\* The window of the decision carries a field the current sample lacks.
MissingInCurrent ==
    LET entries == FindBetween(weather, now - safety_window, now)
    IN  \/ /\ Len(Column(entries, "sky_temp_C")) > 0
           /\ \A i \in 1..Len(entries) :
                 Has(entries[i].data, "sky_temp_C") => Has(entries[i].data, "ambient_temp_C")
           /\ ~Has(data, "sky_temp_C") \/ ~Has(data, "ambient_temp_C")
        \/ /\ Len(Column(entries, "wind_speed_KPH")) > 0
           /\ ~Has(data, "wind_speed_KPH")
        \/ /\ Len(Column(entries, "rain_frequency")) > 0
           /\ ~Has(data, "rain_frequency")

\* C7: if the current sample lacks a field that a safety category needs
\* while the historical window carries that field, make_safety_decision
\* still returns a verdict, with the composite unsafe, and the capture
\* cycle runs to completion instead of aborting.
C7_MissingFieldContained ==
    /\ c_steps = << "acquire" >> /\ MissingInCurrent => c_pc # "raised"
    /\ c_pc = "decided" /\ MissingInCurrent => ~safe_dict[1].Safe

\* The rain frequencies of the window the decision of this cycle read.
WindowRainFrequencies ==
    Column(FindBetween(weather, now - safety_window, now), "rain_frequency")

\* C25: when the window holds at least one rain_frequency, rain is safe if
\* and only if both the current sample's rain_frequency and the window's
\* minimum rain_frequency are above threshold_wet; the rain label (Rain,
\* Wet, Dry) is decided by the current sample alone.
C25_RainWindowOverride ==
    c_pc = "decided" /\ Len(WindowRainFrequencies) > 0 =>
        LET rf == WindowRainFrequencies
            cur == data["rain_frequency"]
        IN  /\ d_flags[1].rain_safe <=>
                  /\ cur > threshold_wet
                  /\ \A i \in 1..Len(rf) : rf[i] > threshold_wet
            /\ safe_dict[1].Rain = IF cur <= threshold_rain THEN "Rain"
                                   ELSE IF cur <= threshold_wet THEN "Wet"
                                   ELSE "Dry"

\* A verdict with label Dry and rain unsafe.
C25_Witness ==
    /\ c_pc = "decided"
    /\ Len(WindowRainFrequencies) > 0
    /\ safe_dict[1].Rain = "Dry"
    /\ ~d_flags[1].rain_safe

\* C26: whenever the verdict's Safe flag is true, no label computed from
\* the current sample is in its worst band: Sky is not 'Very Cloudy', Gust
\* is not 'Very Gusty' and Rain is 'Dry'.
C26_SafeHasNoWorstLabel ==
    safe_dict # None /\ safe_dict[1].Safe =>
        /\ safe_dict[1].Sky # "Very Cloudy"
        /\ safe_dict[1].Gust # "Very Gusty"
        /\ safe_dict[1].Rain = "Dry"

\* The field of the sample that holds each acquired quantity.
FieldOf ==
    [sky |-> "sky_temp_C", ambient |-> "ambient_temp_C",
     rain_sensor |-> "rain_sensor_temp_C", rain_frequency |-> "rain_frequency",
     pwm |-> "pwm_value", wind |-> "wind_speed_KPH"]

\* C27: whenever the acquisition of a quantity succeeds in a capture cycle,
\* its field is present in the sample, also when the value is exactly 0.
C27_AcquiredIsPresent ==
    c_read # None =>
        \A q \in DOMAIN FieldOf : c_read[1][q] # None => Has(data, FieldOf[q])

\* C8: when the store holds no current weather sample, the heater
\* computation skips the heater adjustment without raising, and the capture
\* cycle still completes and persists its sample.
C8_EmptyStoreSkips ==
    current = None /\ Len(c_steps) >= 2 => c_pc # "raised"

-----------------------------------------------------------------------------
(* Claims on the PWM setter                                                 *)

\* C11: set_PWM issues the set-PWM query at most max_tries times (15 by
\* default) and always terminates without raising, whatever the device
\* reads back or fails to answer.
C11_AtMostNTries ==
    /\ Len(p_queries) <= p_ntries
    /\ p_pc # "raised"

\* The number a digit character stands for.
DigitValue(c) ==
    CASE c = "0" -> 0 [] c = "1" -> 1 [] c = "2" -> 2 [] c = "3" -> 3 [] c = "4" -> 4
      [] c = "5" -> 5 [] c = "6" -> 6 [] c = "7" -> 7 [] c = "8" -> 8 [] c = "9" -> 9

\* PNNNN! with NNNN four digits standing for a value in 0..1023
PwmRequestForm(r) ==
    /\ Len(r) = 6
    /\ r[1] = "P"
    /\ r[6] = "!"
    /\ \A j \in 2..5 : r[j] \in Digits
    /\ 1000 * DigitValue(r[2]) + 100 * DigitValue(r[3]) + 10 * DigitValue(r[4])
          + DigitValue(r[5]) \in 0..1023

\* C23: every set-PWM request written has the form PNNNN! with NNNN a
\* zero-padded 4-digit value in 0000..1023, for any percent passed to
\* set_PWM, negative values and values above 100 included.
C23_RequestForm ==
    \A k \in 1..Len(p_queries) : PwmRequestForm(p_queries[k])

\* set_PWM(150) has written P1023!
C23_Witness ==
    /\ p_arg = Some(150)
    /\ Len(p_queries) >= 1
    /\ p_queries[1] = << "P", "1", "0", "2", "3", "!" >>

-----------------------------------------------------------------------------
(* Claims on the configuration                                              *)

\* C12: the configuration reloaded at the end of a safety decision is the
\* one the next decision reads: a decision that follows a completed one
\* takes its thresholds from what was loaded at the end of that one.
C12_ReloadTakesEffect ==
    cfg_read # None /\ config_was # None => cfg_read[1] = config_was[1]

-----------------------------------------------------------------------------
(* Claims on the safety decision's history                                  *)

\* The window of the decision holds a sample with exactly one of sky_temp_C
\* and ambient_temp_C, and the current sample carries every field a
\* category reads.
OneFieldInWindow ==
    LET entries == FindBetween(weather, now - safety_window, now)
    IN  /\ \E i \in 1..Len(entries) :
              Has(entries[i].data, "sky_temp_C") # Has(entries[i].data, "ambient_temp_C")
        /\ {"sky_temp_C", "ambient_temp_C", "wind_speed_KPH", "rain_frequency"}
              \subseteq DOMAIN data

\* C13: a historical sample that carries only one of sky_temp_C and
\* ambient_temp_C is skipped when the sky-difference series is built and
\* does not make the safety decision fail.
C13_OneFieldSkipped ==
    c_steps = << "acquire" >> /\ OneFieldInWindow => c_pc # "raised"

-----------------------------------------------------------------------------
(* Claims on the anemometer flag                                            *)

\* C14: get_wind_speed sends 'V!' only when the flag query 'v!' succeeded
\* and reported a truthy flag: when the device reports the flag as 0, or
\* the flag query fails, only 'v!' was sent and the wind speed is absent.
C14_NoWindQueryWhenDisabled ==
    /\ a_fn = "wind"
    /\ a_flag # None
    /\ \/ a_flag[1] = None
       \/ a_flag[1] = << NumField(0) >>
    => /\ a_queries = << <<"v", "!">> >>
       /\ a_result = None

-----------------------------------------------------------------------------
(* Claims on unknown requests                                               *)

\* Requests that match no pattern of the command table.
UnknownRequests == { <<"?", "?">>, <<"P", "5", "1", "2", "!">> }

\* C15 as stated: query on a request that matches no command pattern fails
\* with UnknownCommand, writes nothing to the Transport, and aborts only
\* that operation.
C15_FailsWithUnknownCommand ==
    q_pc # "idle" /\ q_send \in UnknownRequests =>
        /\ q_pc = "raised"
        /\ q_error = "UnknownCommand"
        /\ written = << >>

\* C15, amended: query on a request that matches no command pattern
\* returns None without raising, the value it also returns when its
\* retries are exhausted, and writes nothing to the Transport.
C15_ReturnsNoneUnsent ==
    q_pc # "idle" /\ q_send \in UnknownRequests =>
        /\ q_pc = "returned"
        /\ q_error = ""
        /\ q_result = None
        /\ q_count = 0
        /\ written = << >>

\* query was called with a request no pattern matches and has returned.
C15_Witness ==
    /\ q_pc = "returned"
    /\ q_send = <<"?", "?">>
    /\ q_result = None

-----------------------------------------------------------------------------
(* Claims on startup                                                        *)

\* C16: no capture cycle runs, and the constructor does not complete,
\* unless device name, firmware version and serial number were all
\* obtained: when an identification query fails or the transport could not
\* be opened, startup fails fatally.
C16_IdentifiedBeforeCapture ==
    s_pc \in {"constructed", "capturing", "raised"} =>
        {"name", "firmware_version", "serial_number"} \subseteq DOMAIN s_ident

-----------------------------------------------------------------------------
(* Claims on the Transport                                                  *)

-----------------------------------------------------------------------------
(* Claims on the heater controller's modes                                  *)

\* The rain-safe flags of the last impulse_cycle seconds are more than 3
\* and none of them is safe.
ClaimedPersistentRain(in) ==
    LET flagged == {i \in 1..Len(in.stored) :
                       /\ in.stored[i].date > in.t - impulse_cycle
                       /\ in.stored[i].date < in.t
                       /\ "rain_safe" \in DOMAIN in.stored[i].data}
    IN  /\ Cardinality(flagged) > 3
        /\ \A i \in flagged : ~in.stored[i].data["rain_safe"]

\* The latest sample carries ambient and rain-sensor temperature.
TempsPresent(in) ==
    /\ in.cur # None
    /\ {"ambient_temp_C", "rain_sensor_temp_C"} \subseteq DOMAIN in.cur[1]

\* The first call found an impulse older than impulse_duration under
\* persistent rain.
ExpiredUnderRain(in) ==
    /\ in.heating = "True"
    /\ TempsPresent(in)
    /\ ClaimedPersistentRain(in)
    /\ in.t - in.start[1] > impulse_duration

\* C17 as stated: two calls in a row with the same history, the same latest
\* sample and the same now leave the same commanded power and the same
\* heater state (mode and impulse_start) after the second call as after
\* the first, in Proportional as in Impulse mode.
C17_Idempotent ==
    i_pc = "twice" =>
        /\ i_out2.heating = i_out1.heating
        /\ i_out2.start = i_out1.start
        /\ i_out2.pwm = i_out1.pwm

\* C17, amended: the second call leaves the heater state of the first, and
\* in Impulse mode the same commanded power, except when the first call
\* ended an impulse older than impulse_duration under persistent rain:
\* then the second call, finding Proportional mode under persistent rain,
\* enters Impulse again with impulse_start = now.
C17_IdempotentUnlessExpired ==
    i_pc = "twice" =>
        IF ExpiredUnderRain(i_in[1])
          THEN /\ i_out1.heating = "False"
               /\ i_out1.start = None
               /\ i_out2.heating = "True"
               /\ i_out2.start = Some(i_in[1].t)
          ELSE /\ i_out2.heating = i_out1.heating
               /\ i_out2.start = i_out1.start
               /\ i_out2.error = i_out1.error
               /\ (i_out1.heating = "True" => i_out2.pwm = i_out1.pwm)

\* Two calls on an expired impulse under persistent rain: off, then on.
C17_Witness ==
    /\ i_pc = "twice"
    /\ ExpiredUnderRain(i_in[1])
    /\ i_out1.pwm = Some(min_power)
    /\ i_out2.pwm = Some(100)

\* C19: a heater cycle that starts in Proportional mode with ambient and
\* rain-sensor temperature present, and whose history of the last
\* impulse_cycle seconds holds more than 3 rain-safe flags none of which is
\* safe, ends in Impulse mode with impulse_start equal to that cycle's now.
C19_EntersImpulse ==
    /\ i_pc # "idle"
    /\ i_in[1].heating # "True"
    /\ TempsPresent(i_in[1])
    /\ ClaimedPersistentRain(i_in[1])
    => /\ i_out1.heating = "True"
       /\ i_out1.start = Some(i_in[1].t)

\* A cycle that began in Proportional mode under persistent rain entered
\* Impulse and set the heater to 100 %.
C19_Witness ==
    /\ i_pc = "once"
    /\ i_in[1].heating = "False"
    /\ ClaimedPersistentRain(i_in[1])
    /\ i_out1.heating = "True"
    /\ i_out1.start = Some(HeaterNow)
    /\ i_out1.pwm = Some(100)

\* C20: a heater cycle that starts in Impulse mode with the temperatures
\* present ends in Impulse mode, impulse_start unchanged, exactly when the
\* persistent-rain signal is still present and now - impulse_start <=
\* impulse_duration; in every other case it ends in Proportional mode with
\* impulse_start cleared.
C20_ImpulseUntilExpired ==
    /\ i_pc # "idle"
    /\ i_in[1].heating = "True"
    /\ TempsPresent(i_in[1])
    => IF /\ ClaimedPersistentRain(i_in[1])
          /\ i_in[1].t - i_in[1].start[1] <= impulse_duration
         THEN /\ i_out1.heating = "True"
              /\ i_out1.start = i_in[1].start
         ELSE /\ i_out1.heating = "False"
              /\ i_out1.start = None

\* An impulse exactly impulse_duration seconds old, under persistent rain,
\* stayed on.
C20_Witness ==
    /\ i_pc = "once"
    /\ i_in[1].heating = "True"
    /\ i_in[1].start = Some(HeaterNow - impulse_duration)
    /\ TempsPresent(i_in[1])
    /\ ClaimedPersistentRain(i_in[1])
    /\ i_out1.heating = "True"
    /\ i_out1.start = i_in[1].start

\* C21: if the latest persisted sample lacks ambient_temp_C or
\* rain_sensor_temp_C, the heater cycle sends no set-PWM request and leaves
\* the heater mode, impulse_start and the PID state unchanged.
C21_SkipLeavesState ==
    /\ i_pc # "idle"
    /\ i_in[1].cur # None
    /\ ~TempsPresent(i_in[1])
    => /\ i_out1.error = ""
       /\ i_out1.pwm = None
       /\ ~i_out1.pid_asked
       /\ i_out1.heating = i_in[1].heating
       /\ i_out1.start = i_in[1].start

\* A cycle in Impulse mode under persistent rain, on a sample without
\* rain-sensor temperature, was skipped.
C21_Witness ==
    /\ i_pc = "once"
    /\ i_in[1].cur # None
    /\ "rain_sensor_temp_C" \notin DOMAIN i_in[1].cur[1]
    /\ ClaimedPersistentRain(i_in[1])
    /\ i_in[1].heating = "True"
    /\ i_out1.heating = "True"
    /\ i_out1.pwm = None

\* The percent the device is asked for when set_PWM is handed percent.
ClaimedClamp(percent) ==
    IF percent < 0 THEN 0 ELSE IF percent > 100 THEN 100 ELSE percent

\* The lookup-table value for deltaT as the specification states it: the
\* first stated band whose guard holds, 0 when none does.
ClaimedTable(deltaT) ==
    IF FirstStatedBand(deltaT) = << >> THEN 0
    ELSE LET d == FirstStatedBand(deltaT)[1]
         IN  IF d >= 0 THEN d \div 2 ELSE -((-d) \div 2)

\* C22: in Impulse mode, with target = ambient_temp_C + impulse_temp: if
\* rain_sensor_temp_C < target the power requested from the device is
\* 100 %; otherwise it is the lookup-table value for deltaT =
\* rain_sensor_temp_C - target, taken as an absolute percentage and clamped
\* to [0, 100].
C22_ImpulsePower ==
    /\ i_pc # "idle"
    /\ TempsPresent(i_in[1])
    /\ i_out1.heating = "True"
    => LET rst == i_in[1].cur[1]["rain_sensor_temp_C"].v
           target == i_in[1].cur[1]["ambient_temp_C"] + Deg(10)
       IN  /\ i_out1.error = ""
           /\ i_out1.pwm # None
           /\ ClaimedClamp(i_out1.pwm[1]) =
                 IF rst < target THEN 100 ELSE ClaimedClamp(ClaimedTable(rst - target))

\* C28: after any sequence of heater cycles, cycles skipped for missing
\* temperatures included, impulse_start holds a timestamp if and only if
\* the heater mode is Impulse, and that timestamp is never later than the
\* now of the latest cycle.
C28_StartIffImpulse ==
    /\ impulse_start # None <=> impulse_heating = "True"
    /\ impulse_start # None => impulse_start[1] <= now

\* A cycle skipped for a missing temperature while the heater was in
\* Impulse mode.
C28_Witness ==
    /\ c_pc = "heated"
    /\ h_before # None
    /\ h_before[1].heating = "True"
    /\ h_last_entry # None
    /\ ~Has(h_last_entry[1], "rain_sensor_temp_C")
    /\ pwm_set = None
    /\ impulse_heating = "True"
    /\ impulse_start # None

-----------------------------------------------------------------------------
(* Claims on the command table                                              *)

\* C29: every request that matches a command definition resolves to exactly
\* one definition that carries an expected-reply pattern, so query on any
\* known command ('!G', '!H' and '!z' included) either returns matched
\* fields or None after its retries and never fails for lack of a pattern.
C29_KnownCommandHasPattern ==
    q_pc # "idle" /\ q_cmd # 0 =>
        /\ Cardinality({i \in 1..Len(Commands) : ReMatch(Commands[i], q_send)}) = 1
        /\ q_cmd \in ExpectsKeys
        /\ q_error # "KeyError"

-----------------------------------------------------------------------------
(* Claims on the switch reader                                              *)

\* The reply is the open indicator !Y, twelve blanks, 1!
IsOpenIndicator(r) ==
    /\ Len(r) >= 16
    /\ r[1] = "!" /\ r[2] = "Y"
    /\ \A k \in 3..14 : r[k] = " "
    /\ r[15] = "1" /\ r[16] = "!"

\* The reply is the closed indicator !X, twelve blanks, 1!
IsClosedIndicator(r) ==
    /\ Len(r) >= 16
    /\ r[1] = "!" /\ r[2] = "X"
    /\ \A k \in 3..14 : r[k] = " "
    /\ r[15] = "1" /\ r[16] = "!"

NeitherIndicator(r) == ~IsOpenIndicator(r) /\ ~IsClosedIndicator(r)

====
